---- MODULE Spec2Model ----
(***************************************************************************)
(* The multi-tier meal log of the diet planner: the meals screen, the      *)
(* DailyMealsService (local store, remote cache, source-of-truth table,    *)
(* optimistic mutations, offline sync queue) for one (user, date).         *)
(*                                                                         *)
(* Every await of the TypeScript code is a step boundary: an action is the *)
(* code that runs between two awaits of one call.                          *)
(*                                                                         *)
(* Spec:       the service under callers of its four entry points,         *)
(*             connectivity events and calls of syncOfflineMutations.      *)
(* ScreenSpec: the meals screen from its mount, with its modals, handlers  *)
(*             and loads.                                                  *)
(* DaySpec:    the loaded day on a device that stays online, cleared,      *)
(*             added to and reloaded.                                      *)
(* OfflineDaySpec: the same day on a device whose connectivity changes.    *)
(* CacheSpec:  the cache service over redis string keys and tag lists,     *)
(*             with a clock, native expiry and commands that fail.         *)
(* ProviderSpec: the operations of UpstashRedisProvider under the errors   *)
(*             of execute.                                                 *)
(* LimiterSpec: checkRateLimit over the sorted set of one identifier.      *)
(* LimiterPairSpec: the same with two checks in flight at once.            *)
(* ProfileSpec: ProfileService and withRateLimit after the rate-limit      *)
(*             check, over the profiles table and the profile's cache.     *)
(* DeviceSpec: get and set of the local storage module over AsyncStorage.  *)
(* IdSpec:     the ids generateMealId gives to successive adds.            *)
(* KeySpec:    keys.cache for two namespaces and lists of parts.           *)
(* PairSpec:   two mutations in flight at once on an online device.        *)
(* ProbeSpec:  mutations on a device whose connectivity changes before     *)
(*             the NetInfo listener runs.                                  *)
(* RefreshSpec: getMealsForDate with its background refresh, and the       *)
(*             mutations issued once it has returned.                      *)
(***************************************************************************)
EXTENDS Integers, Sequences, FiniteSets, TLC

\* ------------------------------------------------------------------------
\* Bounds
\* ------------------------------------------------------------------------
\* Optimistic mutations issued in one behaviour by the callers of the
\* service (Spec) and by the handlers of the meals screen (ScreenSpec).
MaxOps == 2
MaxScreenOps == 1

\* Mutation calls that may be in flight at the same time.
MutSlots == {1, 2}

\* Cache service calls made in one behaviour, advances of the clock, and
\* redis commands that fail.
MaxCalls == 3
MaxTicks == 2
MaxFailures == 1

\* checkRateLimit calls made in one behaviour, advances of the clock
\* between and during them, and the limit of the rate-limited endpoint.
MaxChecks == 4
MaxClock == 3
MaxRequests == 2

\* ProfileService calls made in one behaviour.
MaxProfileOps == 3

\* Calls of the local storage module made in one behaviour.
MaxLocalOps == 2

\* Meals added to one day in one behaviour, and the base-36 digits that
\* Math.random().toString(36) has after "0." (digits are 0 and 1 here).
MaxAdds == 3
RandomDigits == 2

\* Parts handed to keys.cache after the namespace.
MaxParts == 2

\* ------------------------------------------------------------------------
\* Data
\* ------------------------------------------------------------------------
MAX_MEALS_PER_SECTION == 2

MealTypes == {"breakfast", "lunch"}
Foods == {"Oats", "Rice"}

\* The meals offered for adding: a meal type and a food.
Menu == {[type |-> "breakfast", food |-> "Oats"],
         [type |-> "lunch", food |-> "Rice"]}

\* Nutrient values of the foods the user can enter or pick.
Nutrients(food) ==
    IF food = "Oats" THEN [calories |-> 280, protein |-> 10, carbs |-> 50, fat |-> 5]
                     ELSE [calories |-> 200, protein |-> 4, carbs |-> 45, fat |-> 1]

\* MealItem: id, meal_type, name, calories, protein, carbs, fat.
MealItem(id, type, food) ==
    [id |-> id, meal_type |-> type, name |-> food,
     calories |-> Nutrients(food).calories, protein |-> Nutrients(food).protein,
     carbs |-> Nutrients(food).carbs, fat |-> Nutrients(food).fat]

\* Partial<MealItem> built by handleSaveCustomMeal in edit mode.
Updates(food) ==
    [name |-> food,
     calories |-> Nutrients(food).calories, protein |-> Nutrients(food).protein,
     carbs |-> Nutrients(food).carbs, fat |-> Nutrients(food).fat]

\* { ...meal, ...updates }
Spread(meal, updates) ==
    [meal EXCEPT !.name = updates.name, !.calories = updates.calories,
                 !.protein = updates.protein, !.carbs = updates.carbs,
                 !.fat = updates.fat]

\* DailyMeals | null.  A null is a record with present = FALSE.
Null == [present |-> FALSE, rowId |-> 0, meals |-> <<>>, is_locked |-> FALSE]
Daily(rowId, ms, locked) ==
    [present |-> TRUE, rowId |-> rowId, meals |-> ms, is_locked |-> locked]

\* ------------------------------------------------------------------------
\* State
\* ------------------------------------------------------------------------
VARIABLES
    local,          \* Local Store entry of the meals key: DailyMeals or Null
    syncQueue,      \* Local Store sync queue: sequence of SyncQueueItem
    source,         \* daily_meals rows of (user, date): sequence of rows
    cacheEntry,     \* remote cache entry of the meals key
    redisConfigured,\* UpstashRedisProvider.isConfigured()
    isOnline,       \* cached connectivity flag of the local storage module
    connected,      \* the device's connectivity (what NetInfo.fetch reports)
    meals,          \* meals screen: useState meals
    isLocked,       \* meals screen: useState isLocked
    isLoading,      \* meals screen: useState isLoading
    modal,          \* meals screen: which modal / sheet is visible
    selected,       \* selectedMealForAction / editingMeal id (0: none)
    mut,            \* in-flight optimistic mutation calls, by slot
    load,           \* in-flight loadMeals / getMealsForDate call
    refresh,        \* in-flight refreshMealsInBackground task
    bgSets,         \* cache.set calls started and not awaited
    sync,           \* in-flight syncOfflineMutations call
    nextId,         \* next meal id, row id and sync item id to hand out
    ops,            \* optimistic mutations issued so far
    applied,        \* history: id of the sync queue item applied last (0: none)
    now,            \* Date.now() and the clock of the redis server, in ms
    ticks,          \* times the clock has advanced
    kv,             \* redis: the string keys of the cache service
    tagList,        \* redis: the lists stored under the tag keys
    task,           \* cache service calls: 0 the caller's, 1 in the background
    dels,           \* keys of redis.del commands sent by cache.get, on their way
    outage,         \* history: redis commands that have failed
    calls,          \* cache service calls made so far
    cmd,            \* the provider call made last, and how it ended
    zset,           \* redis: the sorted set of the rate-limited identifier
    rl,             \* checkRateLimit calls, by slot
    admitted,       \* history: the requests checkRateLimit has admitted
    prof,           \* the ProfileService call in flight or made last
    profiles,       \* the row of the user in the profiles table
    profCache,      \* the remote cache entry of the user's profile
    profOps,        \* ProfileService calls made so far
    device,         \* AsyncStorage: the item stored under each key
    lget,           \* the call of the local storage module made last
    localOps,       \* calls of the local storage module made so far
    day,            \* the ids of a day's meals list built by successive adds
    keyIn,          \* two calls of keys.cache: their namespaces and parts
    keyOut          \* the keys the two calls returned (none before them)

\* The meal log, and the cache service seen in itself.
mealVars == <<local, syncQueue, source, cacheEntry, isOnline, connected,
              meals, isLocked, isLoading, modal, selected, mut, load, refresh,
              bgSets, sync, nextId, ops, applied>>
profVars == <<prof, profiles, profCache, profOps>>
deviceVars == <<device, lget, localOps>>
appVars == <<profVars, deviceVars, day, keyIn, keyOut>>
svcVars == <<now, ticks, kv, tagList, task, dels, outage, calls, cmd, zset,
             rl, admitted, appVars>>

vars == <<mealVars, redisConfigured, svcVars>>

\* What no code path of the meal log touches: the provider's configuration,
\* the cache service's own state and the device's connectivity.
redisVars == <<redisConfigured, svcVars, connected>>

storeVars == <<local, syncQueue, source, cacheEntry>>
uiVars == <<meals, isLocked, isLoading, modal, selected>>

\* ------------------------------------------------------------------------
\* Source-of-truth table (supabase.from('daily_meals'))
\* ------------------------------------------------------------------------
\* .select().eq(user).eq(date).maybeSingle(): a row, null, or an error when
\* the request fails or more than one row matches.
MaybeSingle(src, ok) ==
    IF ~ok \/ Len(src) > 1 THEN [error |-> TRUE, data |-> Null]
    ELSE IF Len(src) = 0 THEN [error |-> FALSE, data |-> Null]
    ELSE [error |-> FALSE,
          data |-> Daily(src[1].id, src[1].meals, src[1].is_locked)]

\* .update({meals}).eq('id', id)
UpdateRow(src, id, ms) ==
    [i \in 1..Len(src) |->
        IF src[i].id = id THEN [src[i] EXCEPT !.meals = ms] ELSE src[i]]

\* .insert({user_id, meal_date, meals})
InsertRow(src, id, ms) ==
    Append(src, [id |-> id, meals |-> ms, is_locked |-> FALSE])

\* .delete().eq(user).eq(date)
DeleteRows(src) == <<>>

\* fetchMealsFromDB: an error is logged and null returned.
FetchMealsFromDB(src, ok) == MaybeSingle(src, ok).data

\* saveMealsForDateBackground as a whole, with no other call in between and
\* a store that accepts both requests.
SaveMealsForDate(src, id, ms) ==
    LET existing == MaybeSingle(src, TRUE).data
    IN IF existing.present THEN UpdateRow(src, existing.rowId, ms)
                           ELSE InsertRow(src, id, ms)

\* ------------------------------------------------------------------------
\* Local store
\* ------------------------------------------------------------------------
\* updateLocalCache: spread the existing record or create a local one.
UpdatedLocal(existing, ms) ==
    IF existing.present THEN [existing EXCEPT !.meals = ms]
                        ELSE Daily(0, ms, FALSE)

\* queueMealMutation / addToSyncQueue: the new SyncQueueItem.  A 'clear'
\* payload carries no meals key.
QueueItem(id, action, ms) ==
    [id |-> id, action |-> action, hasMeals |-> action # "clear",
     meals |-> IF action = "clear" THEN <<>> ELSE ms]

\* removeFromSyncQueue: queue.filter(item => item.id !== id)
WithoutItem(q, id) == SelectSeq(q, LAMBDA it : it.id # id)

\* ------------------------------------------------------------------------
\* Remote cache
\* ------------------------------------------------------------------------
NoEntry == [stored |-> FALSE, data |-> Null]
Entry(d) == [stored |-> TRUE, data |-> d]

\* cache.get: null when redis is not configured, the request fails or the
\* key is absent; the cached data otherwise.
CacheGet(entry, ok) ==
    IF ~redisConfigured \/ ~ok \/ ~entry.stored THEN Null ELSE entry.data

\* cache.set: redis.set answers null on a failure, which cache.set ignores.
CacheSet(entry, d, ok) ==
    IF ~redisConfigured \/ ~ok THEN entry ELSE Entry(d)

\* cache.del
CacheDel(entry, ok) ==
    IF ~redisConfigured \/ ~ok THEN entry ELSE NoEntry

\* ------------------------------------------------------------------------
\* Meals screen helpers
\* ------------------------------------------------------------------------
\* isSectionFull
IsSectionFull(ms, type) ==
    Len(SelectSeq(ms, LAMBDA m : m.meal_type = type)) >= MAX_MEALS_PER_SECTION

\* isEditableDate, for a selected date that is today or later.
IsEditableDate == ~isLocked

\* calculateTotalNutrition
RECURSIVE CalculateTotalNutrition(_)
CalculateTotalNutrition(ms) ==
    IF ms = <<>> THEN [calories |-> 0, protein |-> 0, carbs |-> 0, fat |-> 0]
    ELSE LET total == CalculateTotalNutrition(SubSeq(ms, 1, Len(ms) - 1))
             meal == ms[Len(ms)]
         IN [calories |-> total.calories + meal.calories,
             protein |-> total.protein + meal.protein,
             carbs |-> total.carbs + meal.carbs,
             fat |-> total.fat + meal.fat]

\* ------------------------------------------------------------------------
\* Optimistic mutations
\* ------------------------------------------------------------------------
\* A call of an entry point: its position, its arguments and locals, and
\* its history (callbacks fired, the flag it read, isLocked and the tiers
\* when it was called, requests made to the source store).
IdleCall ==
    [pc |-> "idle", kind |-> "none", cur |-> <<>>, opt |-> <<>>,
     existing |-> Null, row |-> Null, cached |-> Null, q |-> <<>>,
     item |-> 0, cbs |-> <<>>,
     online |-> TRUE, locked |-> FALSE, empty |-> FALSE, srcReqs |-> 0,
     writes |-> 0, failed |-> FALSE]

\* The optimistic arrays the four entry points compute.
AddOptimistic(cur, newMeal) == Append(cur, newMeal)
UpdateOptimistic(cur, mealId, updates) ==
    [i \in 1..Len(cur) |->
        IF cur[i].id = mealId THEN Spread(cur[i], updates) ELSE cur[i]]
RemoveOptimistic(cur, mealId) == SelectSeq(cur, LAMBDA m : m.id # mealId)
ClearOptimistic(cur) == <<>>

\* A catch block that hands the optimistic list to onError.
OnErrorOptimistic(c) == c.opt

\* The list handed to onError: currentMeals.
OnErrorArg(c) == c.cur

\* The action name each entry point queues: 'add', 'update', 'delete' (by
\* removeMealOptimistic) and 'clear'.
QueueAction(kind) == IF kind = "remove" THEN "delete" ELSE kind

\* No tier holds a record of the day.
NoRowInAnyTier == ~local.present /\ source = <<>> /\ ~cacheEntry.data.present

Free(s) == mut[s].pc \in {"idle", "done"}

\* A new call takes the lowest slot that holds no call in flight.
Lowest(s) == Free(s) /\ \A t \in MutSlots : Free(t) => s <= t

\* The synchronous head of an entry point: compute the optimistic array,
\* call onOptimisticUpdate (setMeals), then await the first local store call.
Begin(s, kind, opt) ==
    /\ Lowest(s)
    /\ ops' = ops + 1
    /\ meals' = opt
    /\ mut' = [mut EXCEPT ![s] =
                 [IdleCall EXCEPT
                    !.pc = IF kind = "clear" THEN "localRemove" ELSE "localRead",
                    !.kind = kind, !.cur = meals, !.opt = opt,
                    !.locked = isLocked, !.empty = NoRowInAnyTier,
                    !.cbs = <<[cb |-> "onOptimisticUpdate", list |-> opt]>>]]

\* addMealOptimistic(userId, date, meal, currentMeals, onOptimisticUpdate,
\* onError), called with the screen's meals as currentMeals.
AddMealOptimistic(s, type, food) ==
    /\ Begin(s, "add", AddOptimistic(meals, MealItem(nextId.meal, type, food)))
    /\ nextId' = [nextId EXCEPT !.meal = @ + 1]

\* updateMealOptimistic
UpdateMealOptimistic(s, mealId, food) ==
    /\ Begin(s, "update", UpdateOptimistic(meals, mealId, Updates(food)))
    /\ UNCHANGED nextId

\* removeMealOptimistic
RemoveMealOptimistic(s, mealId) ==
    /\ Begin(s, "remove", RemoveOptimistic(meals, mealId))
    /\ UNCHANGED nextId

\* clearMealsOptimistic
ClearMealsOptimistic(s) ==
    /\ Begin(s, "clear", ClearOptimistic(meals))
    /\ UNCHANGED nextId

\* The temporaries of a call are dead once it has returned.
Returned(c) ==
    [c EXCEPT !.pc = "done", !.existing = Null, !.row = Null,
              !.cached = Null, !.q = <<>>]

\* What every step of a mutation call leaves alone.
mutRest == <<redisVars, isOnline, isLocked, isLoading, modal, selected,
             load, refresh, bgSets, sync, ops, applied>>

\* The catch block: onError(error, currentMeals), which the screen answers
\* with setMeals(originalMeals).
Fail(s) ==
    /\ mut' = [mut EXCEPT ![s] =
                 [Returned(@) EXCEPT
                    !.failed = TRUE, !.srcReqs = @ + 1, !.writes = @ + 1,
                    !.cbs = Append(@, [cb |-> "onError",
                                       list |-> OnErrorArg(mut[s])])]]
    /\ meals' = OnErrorArg(mut[s])

\* updateLocalCache, first half: await localStorage.getMealsLocal
MutLocalRead(s) ==
    /\ mut[s].pc = "localRead"
    /\ mut' = [mut EXCEPT ![s].pc = "localWrite", ![s].existing = local]
    /\ UNCHANGED <<storeVars, meals, nextId, mutRest>>

\* A mutation that goes from the local store to the remote cache.
AfterLocalCache(kind) == IF kind = "clear" THEN "cacheDel" ELSE "cacheGet"

\* The branch taken after the local store call: getOnlineStatus()
AfterLocal(kind) ==
    IF ~isOnline THEN "queueRead"
    ELSE IF kind = "clear" THEN "delete" ELSE "select"

\* updateLocalCache, second half: await localStorage.setMealsLocal, then the
\* online check.
MutLocalWrite(s) ==
    /\ mut[s].pc = "localWrite"
    /\ local' = UpdatedLocal(mut[s].existing, mut[s].opt)
    /\ mut' = [mut EXCEPT ![s].pc = AfterLocal(mut[s].kind),
                          ![s].online = isOnline, ![s].existing = Null]
    /\ UNCHANGED <<syncQueue, source, cacheEntry, meals, nextId, mutRest>>

\* clearMealsOptimistic: await localStorage.remove(key), then the online check.
MutLocalRemove(s) ==
    /\ mut[s].pc = "localRemove"
    /\ local' = Null
    /\ mut' = [mut EXCEPT ![s].pc = AfterLocal(mut[s].kind),
                          ![s].online = isOnline]
    /\ UNCHANGED <<syncQueue, source, cacheEntry, meals, nextId, mutRest>>

\* addToSyncQueue, first half: await getSyncQueue()
MutQueueRead(s) ==
    /\ mut[s].pc = "queueRead"
    /\ mut' = [mut EXCEPT ![s].pc = "queueWrite", ![s].q = syncQueue]
    /\ UNCHANGED <<storeVars, meals, nextId, mutRest>>

\* addToSyncQueue, second half: push the new item and write the whole queue.
MutQueueWrite(s) ==
    /\ mut[s].pc = "queueWrite"
    /\ syncQueue' = Append(mut[s].q,
                           QueueItem(nextId.item, QueueAction(mut[s].kind),
                                     mut[s].opt))
    /\ nextId' = [nextId EXCEPT !.item = @ + 1]
    /\ mut' = [mut EXCEPT ![s] = [Returned(@) EXCEPT !.item = nextId.item]]
    /\ UNCHANGED <<local, source, cacheEntry, meals, mutRest>>

\* saveMealsForDateBackground, first request: select the row id.  The error
\* of the select is not read: existing is null when the request fails.
MutSelect(s) ==
    /\ mut[s].pc = "select"
    /\ \E ok \in BOOLEAN :
          mut' = [mut EXCEPT ![s].pc = "write",
                             ![s].row = MaybeSingle(source, ok).data,
                             ![s].srcReqs = @ + 1]
    /\ UNCHANGED <<storeVars, meals, nextId, mutRest>>

\* A source write that went through and is followed by the catch block.
AfterWriteCaught(c) ==
    [Returned(c) EXCEPT !.failed = TRUE,
                        !.cbs = Append(@, [cb |-> "onError",
                                           list |-> OnErrorArg(c)])]

\* updateRemoteCache starts with cache.get, which answers null at once when
\* redis is not configured.
AfterWrite(c) ==
    IF redisConfigured THEN [c EXCEPT !.pc = "cacheGet", !.row = Null]
                       ELSE Returned(c)

\* saveMealsForDateBackground, second request: update the row found or
\* insert a new one; an error is thrown to the entry point's catch.
MutWrite(s) ==
    /\ mut[s].pc = "write"
    /\ \/ /\ source' = IF mut[s].row.present
                         THEN UpdateRow(source, mut[s].row.rowId, mut[s].opt)
                         ELSE InsertRow(source, nextId.row, mut[s].opt)
          /\ nextId' = IF mut[s].row.present THEN nextId
                        ELSE [nextId EXCEPT !.row = @ + 1]
          /\ mut' = [mut EXCEPT ![s] =
                       [AfterWrite(@) EXCEPT !.srcReqs = @ + 1, !.writes = @ + 1]]
          /\ UNCHANGED meals
       \/ /\ Fail(s)
          /\ UNCHANGED <<source, nextId>>
    /\ UNCHANGED <<local, syncQueue, cacheEntry, mutRest>>

\* updateRemoteCache: await cache.get(cacheKey)
MutCacheGet(s) ==
    /\ mut[s].pc = "cacheGet"
    /\ \E ok \in BOOLEAN :
          LET cached == CacheGet(cacheEntry, ok)
          IN mut' = [mut EXCEPT ![s] =
                       IF cached.present
                       THEN [@ EXCEPT !.pc = "cacheSet", !.cached = cached]
                       ELSE Returned(@)]
    /\ UNCHANGED <<storeVars, meals, nextId, mutRest>>

\* updateRemoteCache: await cache.set(cacheKey, {...cachedData, meals})
MutCacheSet(s) ==
    /\ mut[s].pc = "cacheSet"
    /\ \E ok \in BOOLEAN :
          cacheEntry' = CacheSet(cacheEntry,
                                 [mut[s].cached EXCEPT !.meals = mut[s].opt], ok)
    /\ mut' = [mut EXCEPT ![s] = Returned(@)]
    /\ UNCHANGED <<local, syncQueue, source, meals, nextId, mutRest>>

\* clearMealsOptimistic: delete the row; an error is thrown to the catch.
MutDelete(s) ==
    /\ mut[s].pc = "delete"
    /\ \/ /\ source' = DeleteRows(source)
          /\ mut' = [mut EXCEPT ![s] =
                       [(IF redisConfigured THEN [@ EXCEPT !.pc = "cacheDel"]
                                            ELSE Returned(@))
                        EXCEPT !.srcReqs = @ + 1, !.writes = @ + 1]]
          /\ UNCHANGED meals
       \/ /\ Fail(s)
          /\ UNCHANGED source
    /\ UNCHANGED <<local, syncQueue, cacheEntry, nextId, mutRest>>

\* clearMealsOptimistic: await cache.del(cacheKey)
MutCacheDel(s) ==
    /\ mut[s].pc = "cacheDel"
    /\ \E ok \in BOOLEAN : cacheEntry' = CacheDel(cacheEntry, ok)
    /\ mut' = [mut EXCEPT ![s] = Returned(@)]
    /\ UNCHANGED <<local, syncQueue, source, meals, nextId, mutRest>>

\* The steps of the mutation call in slot s that found the flag online.
MutOnlineStep(s) ==
    \/ MutLocalRead(s)
    \/ MutLocalWrite(s)
    \/ MutLocalRemove(s)
    \/ MutSelect(s)
    \/ MutWrite(s)
    \/ MutCacheGet(s)
    \/ MutCacheSet(s)
    \/ MutDelete(s)
    \/ MutCacheDel(s)

\* The steps of the mutation call in slot s.
MutStep(s) ==
    \/ MutOnlineStep(s)
    \/ MutQueueRead(s)
    \/ MutQueueWrite(s)

\* ------------------------------------------------------------------------
\* Meals screen handlers
\* ------------------------------------------------------------------------
\* What a handler that starts a mutation leaves alone.
entryRest == <<storeVars, redisVars, isOnline, isLocked, isLoading,
               load, refresh, bgSets, sync, applied>>

\* What a handler that only moves between modals leaves alone.
modalRest == <<storeVars, redisVars, isOnline, meals, isLocked,
               isLoading, mut, load, refresh, bgSets, sync, nextId, ops,
               applied>>

\* The quick action and section buttons, rendered while isEditableDate().
OpenModal ==
    /\ modal = "none" /\ ~isLoading /\ IsEditableDate
    /\ \E m \in {"ai", "custom"} : modal' = m
    /\ selected' = 0
    /\ UNCHANGED modalRest

\* onClose of the modals, closeCustomMealModal, closeMealActionSheet.
CloseModal ==
    /\ modal # "none"
    /\ modal' = "none"
    /\ selected' = 0
    /\ UNCHANGED modalRest

\* handleSelectFood: no lock check; a full section closes the modal only.
HandleSelectFood(s) ==
    /\ ops < MaxScreenOps
    /\ modal = "ai"
    /\ modal' = "none"
    /\ \E m \in Menu :
          IF IsSectionFull(meals, m.type)
          THEN UNCHANGED <<meals, mut, nextId, ops>>
          ELSE AddMealOptimistic(s, m.type, m.food)
    /\ UNCHANGED selected
    /\ UNCHANGED entryRest

\* handleMealAction: the per-meal button, rendered while isEditableDate().
HandleMealAction ==
    /\ modal = "none" /\ ~isLoading /\ IsEditableDate
    /\ \E i \in 1..Len(meals) :
          IF isLocked
          THEN UNCHANGED <<modal, selected>>
          ELSE modal' = "sheet" /\ selected' = meals[i].id
    /\ UNCHANGED modalRest

\* handleEditMeal: from the action sheet to the custom meal modal, edit mode.
HandleEditMeal ==
    /\ modal = "sheet" /\ selected # 0
    /\ modal' = "edit"
    /\ UNCHANGED selected
    /\ UNCHANGED modalRest

\* handleDeleteMeal: no lock check.
HandleDeleteMeal(s) ==
    /\ ops < MaxScreenOps
    /\ modal = "sheet" /\ selected # 0
    /\ modal' = "none"
    /\ selected' = 0
    /\ RemoveMealOptimistic(s, selected)
    /\ UNCHANGED entryRest

\* handleClearAllMeals: the header button, rendered while there are meals
\* and isEditableDate().
HandleClearAllMeals(s) ==
    /\ ops < MaxScreenOps
    /\ modal = "none" /\ ~isLoading /\ IsEditableDate
    /\ meals # <<>>
    /\ ~isLocked
    /\ ClearMealsOptimistic(s)
    /\ UNCHANGED <<modal, selected>>
    /\ UNCHANGED entryRest

\* handleSaveCustomMeal with a valid form: update in edit mode, add
\* otherwise (a full section leaves the modal open); no lock check.
HandleSaveCustomMeal(s) ==
    /\ ops < MaxScreenOps
    /\ modal \in {"custom", "edit"}
    /\ modal' = "none" /\ selected' = 0
    /\ \E m \in Menu :
          IF modal = "edit"
          THEN UpdateMealOptimistic(s, selected, m.food)
          ELSE ~IsSectionFull(meals, m.type)
               /\ AddMealOptimistic(s, m.type, m.food)
    /\ UNCHANGED entryRest

\* ------------------------------------------------------------------------
\* loadMeals / getMealsForDate
\* ------------------------------------------------------------------------
\* A getMealsForDate call: its position, the flag it read (kept after the
\* return, as history), and the number of the mutation that had returned when
\* it was called (0: none had).
IdleLoad == [pc |-> "idle", online |-> TRUE, after |-> 0]
IdleRefresh == [pc |-> "idle", data |-> Null]

\* loadMeals after the await: setMeals, setIsLocked, setIsLoading(false).
Return(data) ==
    /\ meals' = data.meals
    /\ isLocked' = data.is_locked
    /\ isLoading' = FALSE
    /\ load' = [IdleLoad EXCEPT !.online = load.online]

\* onRefresh: pull to refresh on the main screen, once the background work
\* of the load before has ended.
OnRefresh ==
    /\ load.pc = "idle" /\ refresh.pc = "idle" /\ bgSets = {}
    /\ ~isLoading /\ modal = "none"
    /\ load' = [pc |-> "localRead", online |-> isOnline,
                after |-> IF mut[1].pc = "done" THEN ops ELSE 0]
    /\ UNCHANGED <<storeVars, redisVars, isOnline, uiVars, mut, refresh,
                   bgSets, sync, nextId, ops, applied>>

\* getMealsForDate: if (!isOnline) return localStorage.getMealsLocal(...)
LocalOnlyNever(online) == FALSE

LocalOnly(online) == ~online

\* getMealsForDate: await localStorage.getMealsLocal.  Offline the local
\* value is the answer; online a local hit is returned while
\* refreshMealsInBackground is started and not awaited.
LoadLocalRead ==
    /\ load.pc = "localRead"
    /\ IF LocalOnly(load.online)
       THEN Return(local) /\ UNCHANGED refresh
       ELSE IF local.present
            THEN Return(local) /\ refresh' = [pc |-> "fetch", data |-> Null]
            ELSE /\ load' = [load EXCEPT !.pc = IF redisConfigured
                                                 THEN "cacheGet" ELSE "fetch"]
                 /\ UNCHANGED <<meals, isLocked, isLoading, refresh>>
    /\ UNCHANGED <<storeVars, redisVars, isOnline, modal, selected, mut,
                   bgSets, sync, nextId, ops, applied>>

\* fetchAndCacheMeals: cache.getOrSet, the cache.get.  A hit is stored
\* locally and returned.
LoadCacheGet ==
    /\ load.pc = "cacheGet"
    /\ \E ok \in BOOLEAN :
          LET cached == CacheGet(cacheEntry, ok)
          IN IF cached.present
             THEN local' = cached /\ Return(cached)
             ELSE /\ load' = [load EXCEPT !.pc = "fetch"]
                  /\ UNCHANGED <<local, meals, isLocked, isLoading>>
    /\ UNCHANGED <<syncQueue, source, cacheEntry, redisVars, isOnline,
                   modal, selected, mut, refresh, bgSets, sync, nextId, ops,
                   applied>>

\* cache.set started without await: it reaches redis later, if configured.
Started(sets, d) == IF redisConfigured THEN sets \cup {d} ELSE sets

\* fetchAndCacheMeals: the fetcher.  The result is cached without await,
\* stored locally when not null, and returned.
LoadFetch ==
    /\ load.pc = "fetch"
    /\ \E ok \in BOOLEAN :
          LET data == FetchMealsFromDB(source, ok)
          IN /\ bgSets' = Started(bgSets, data)
             /\ local' = IF data.present THEN data ELSE local
             /\ Return(data)
    /\ UNCHANGED <<syncQueue, source, cacheEntry, redisVars, isOnline,
                   modal, selected, mut, refresh, sync, nextId, ops, applied>>

\* refreshMealsInBackground: await fetchMealsFromDB
RefreshFetch ==
    /\ refresh.pc = "fetch"
    /\ \E ok \in BOOLEAN :
          LET data == FetchMealsFromDB(source, ok)
          IN refresh' = IF data.present
                        THEN [pc |-> "localWrite", data |-> data]
                        ELSE IdleRefresh
    /\ UNCHANGED <<storeVars, redisVars, isOnline, uiVars, mut, load,
                   bgSets, sync, nextId, ops, applied>>

\* refreshMealsInBackground: await setMealsLocal, then cache.set not awaited
RefreshLocalWrite ==
    /\ refresh.pc = "localWrite"
    /\ local' = refresh.data
    /\ bgSets' = Started(bgSets, refresh.data)
    /\ refresh' = IdleRefresh
    /\ UNCHANGED <<syncQueue, source, cacheEntry, redisVars, isOnline,
                   uiVars, mut, load, sync, nextId, ops, applied>>

\* A cache.set that was not awaited reaches redis.
BackgroundCacheSet ==
    /\ \E d \in bgSets :
          /\ bgSets' = bgSets \ {d}
          /\ \E ok \in BOOLEAN : cacheEntry' = CacheSet(cacheEntry, d, ok)
    /\ UNCHANGED <<local, syncQueue, source, redisVars, isOnline,
                   uiVars, mut, load, refresh, sync, nextId, ops, applied>>

\* ------------------------------------------------------------------------
\* Connectivity
\* ------------------------------------------------------------------------
\* NetInfo.addEventListener(state => { isOnline = state.isConnected ?? true })
\* The connectivity changes and the listener runs with the new state.
NetInfoEvent ==
    /\ connected = isOnline
    /\ connected' = ~connected
    /\ isOnline' = connected'
    /\ UNCHANGED <<storeVars, redisConfigured, svcVars, uiVars, mut, load,
                   refresh, bgSets, sync, nextId, ops, applied>>

\* The connectivity changes; the listener has not run yet.
ConnectivityChange ==
    /\ connected = isOnline
    /\ connected' = ~connected
    /\ UNCHANGED <<storeVars, redisConfigured, svcVars, isOnline, uiVars, mut,
                   load, refresh, bgSets, sync, nextId, ops, applied>>

\* The listener runs with the state NetInfo reports.
NetInfoListener ==
    /\ connected # isOnline
    /\ isOnline' = connected
    /\ UNCHANGED <<storeVars, redisVars, uiVars, mut, load, refresh,
                   bgSets, sync, nextId, ops, applied>>

\* ------------------------------------------------------------------------
\* syncOfflineMutations
\* ------------------------------------------------------------------------
IdleSync ==
    [pc |-> "idle", queue |-> <<>>, idx |-> 0, synced |-> 0, total |-> 0,
     row |-> Null, q |-> <<>>, failedIds |-> {}]

\* Where the loop body starts for item idx of the queue read at the start.
ItemPc(queue, idx) ==
    IF idx > Len(queue) THEN "done"
    ELSE IF queue[idx].action = "clear" THEN "delete"
    ELSE IF queue[idx].hasMeals THEN "select"
    ELSE "rmRead"

\* The loop goes on with item idx; past the last item the call returns
\* synced and its locals are dead.
Continue(c, idx) ==
    IF idx > Len(c.queue)
    THEN [c EXCEPT !.pc = "done", !.total = Len(c.queue), !.queue = <<>>,
                   !.idx = 0, !.row = Null, !.q = <<>>]
    ELSE [c EXCEPT !.pc = ItemPc(c.queue, idx), !.idx = idx, !.row = Null,
                   !.q = <<>>]

SyncItem == sync.queue[sync.idx]

\* A call of syncOfflineMutations.
SyncStart ==
    /\ sync.pc \in {"idle", "done"}
    /\ syncQueue # <<>>
    /\ sync' = [IdleSync EXCEPT !.pc = "getQueue"]
    /\ UNCHANGED <<storeVars, redisVars, isOnline, uiVars, mut, load,
                   refresh, bgSets, nextId, ops, applied>>

\* await localStorage.getSyncQueue()
SyncGetQueue ==
    /\ sync.pc = "getQueue"
    /\ sync' = Continue([sync EXCEPT !.queue = syncQueue], 1)
    /\ UNCHANGED <<storeVars, redisVars, isOnline, uiVars, mut, load,
                   refresh, bgSets, nextId, ops, applied>>

\* action 'clear': await the delete; its error is not read.
SyncDelete ==
    /\ sync.pc = "delete"
    /\ \E ok \in BOOLEAN :
          /\ source' = IF ok THEN DeleteRows(source) ELSE source
          /\ applied' = IF ok THEN SyncItem.id ELSE applied
          /\ sync' = [sync EXCEPT !.pc = "rmRead",
                        !.failedIds = IF ok THEN @ ELSE @ \cup {SyncItem.id}]
    /\ UNCHANGED <<local, syncQueue, cacheEntry, redisVars, isOnline,
                   uiVars, mut, load, refresh, bgSets, nextId, ops>>

\* saveMealsForDateBackground, first request
SyncSelect ==
    /\ sync.pc = "select"
    /\ \E ok \in BOOLEAN :
          sync' = [sync EXCEPT !.pc = "write",
                               !.row = MaybeSingle(source, ok).data]
    /\ UNCHANGED <<storeVars, redisVars, isOnline, uiVars, mut, load,
                   refresh, bgSets, nextId, ops, applied>>

\* saveMealsForDateBackground, second request; an error is caught by the
\* loop, which goes on with the next item.
SyncWrite ==
    /\ sync.pc = "write"
    /\ \/ /\ source' = IF sync.row.present
                         THEN UpdateRow(source, sync.row.rowId, SyncItem.meals)
                         ELSE InsertRow(source, nextId.row, SyncItem.meals)
          /\ nextId' = IF sync.row.present THEN nextId
                        ELSE [nextId EXCEPT !.row = @ + 1]
          /\ applied' = SyncItem.id
          /\ sync' = [sync EXCEPT !.pc = "rmRead"]
       \/ /\ sync' = Continue([sync EXCEPT !.failedIds = @ \cup {SyncItem.id}],
                                sync.idx + 1)
          /\ UNCHANGED <<source, nextId, applied>>
    /\ UNCHANGED <<local, syncQueue, cacheEntry, redisVars, isOnline,
                   uiVars, mut, load, refresh, bgSets, ops>>

\* removeFromSyncQueue, first half: await getSyncQueue()
SyncRemoveRead ==
    /\ sync.pc = "rmRead"
    /\ sync' = [sync EXCEPT !.pc = "rmWrite", !.q = syncQueue]
    /\ UNCHANGED <<storeVars, redisVars, isOnline, uiVars, mut, load,
                   refresh, bgSets, nextId, ops, applied>>

\* removeFromSyncQueue, second half: write the filtered queue; synced++
SyncRemoveWrite ==
    /\ sync.pc = "rmWrite"
    /\ syncQueue' = WithoutItem(sync.q, SyncItem.id)
    /\ sync' = Continue([sync EXCEPT !.synced = @ + 1], sync.idx + 1)
    /\ UNCHANGED <<local, source, cacheEntry, redisVars, isOnline,
                   uiVars, mut, load, refresh, bgSets, nextId, ops, applied>>

\* The steps of a syncOfflineMutations call.
SyncStep ==
    \/ SyncGetQueue
    \/ SyncDelete
    \/ SyncSelect
    \/ SyncWrite
    \/ SyncRemoveRead
    \/ SyncRemoveWrite

\* ------------------------------------------------------------------------
\* Callers of the service
\* ------------------------------------------------------------------------
\* The four entry points called with the list the caller holds: add a
\* lunch, edit or remove the first meal of the list, clear the day.
CallAdd(s) ==
    /\ ops < MaxOps
    /\ AddMealOptimistic(s, "lunch", "Rice")
    /\ UNCHANGED <<modal, selected>>
    /\ UNCHANGED entryRest

CallUpdate(s) ==
    /\ ops < MaxOps
    /\ meals # <<>>
    /\ \E food \in Foods :
          /\ meals[1].name # food
          /\ UpdateMealOptimistic(s, meals[1].id, food)
    /\ UNCHANGED <<modal, selected>>
    /\ UNCHANGED entryRest

CallRemove(s) ==
    /\ ops < MaxOps
    /\ meals # <<>>
    /\ RemoveMealOptimistic(s, meals[1].id)
    /\ UNCHANGED <<modal, selected>>
    /\ UNCHANGED entryRest

CallClear(s) ==
    /\ ops < MaxOps
    /\ ClearMealsOptimistic(s)
    /\ UNCHANGED <<modal, selected>>
    /\ UNCHANGED entryRest

\* ------------------------------------------------------------------------
\* Cache service: the entries, tag lists and clock of redis
\* ------------------------------------------------------------------------
\* What the cache service leaves alone.
cacheRest == <<mealVars, redisConfigured, cmd, zset, rl, admitted, appVars>>

\* CACHE_TTL of the redis configuration, in seconds.
CACHE_TTL ==
    [namespaces |-> [profile |-> 7200, meals |-> 1800, gemini |-> 86400],
     staleGrace |-> [profile |-> 1800, meals |-> 300, gemini |-> 600]]

\* cacheKeys.userProfile and geminiMealPlan of one user and date
Keys == {"profile", "gemini"}

\* tagKeys.user and userProfile of that user
TagNames == {"user", "userProfile"}

\* The options of profileCache.set and geminiCache.setMealPlan, with the
\* grace period of the namespace.
Options(k) ==
    [ttl |-> CACHE_TTL.namespaces[k],
     staleWhileRevalidate |-> CACHE_TTL.staleGrace[k],
     tags |-> CASE k = "profile" -> <<"userProfile", "user">>
                [] k = "gemini" -> <<"user">>]

\* A string key of redis: the envelope stored last (CachedData) and the time
\* its native expiry ends at; DEL and expiry leave the rest as history.
NoKey == [stored |-> FALSE, data |-> 0, expiresAt |-> 0, tags |-> <<>>,
          dies |-> 0]
\* A list key of redis: a list has no expiry until EXPIRE gives it one.
NoList == [stored |-> FALSE, members |-> <<>>, expires |-> FALSE, dies |-> 0]

\* redis keeps a key until its expiry time has passed.
Live(e) == e.stored /\ now <= e.dies
LiveList(l) == l.stored /\ (l.expires => now <= l.dies)

\* The clock advances by a millisecond, or by the two lifetimes that set
\* gives out for a profile entry (ttl for the entry, ttl * 2 for its tag
\* lists) while no command is on its way: a command is given up after
\* PERFORMANCE.commandTimeout, 3 seconds.
Jumps ==
    IF (\A t \in {0, 1} : task[t].pc \in {"idle", "done"}) /\ dels = {}
    THEN {1, CACHE_TTL.namespaces.profile * 1000,
          CACHE_TTL.namespaces.profile * 2 * 1000}
    ELSE {1}

Tick ==
    /\ ticks < MaxTicks
    /\ \E d \in Jumps : now' = now + d
    /\ ticks' = ticks + 1
    /\ UNCHANGED <<cacheRest, kv, tagList, task, dels, outage,
                   calls>>

\* isRedisAvailable(): the provider has its url and token
AvailableAlways == TRUE

IsRedisAvailable == redisConfigured

\* UpstashRedisProvider.execute: a command is sent when the provider is
\* configured, and the backend answers it or fails (error, timeout).
Answers == IF outage < MaxFailures THEN BOOLEAN ELSE {TRUE}
Sent == IF redisConfigured THEN 1 ELSE 0

\* ------------------------------------------------------------------------
\* Cache service: get, set, del, delMany, invalidateByTag, getOrSet,
\* getStaleWhileRevalidate
\* ------------------------------------------------------------------------
Ops == {"get", "set", "del", "delMany", "invalidateByTag", "getOrSet",
        "getStaleWhileRevalidate"}

\* A call of the cache service.  key is the key, or the tag of
\* invalidateByTag; value is the data given to set or returned by fetcher;
\* result is what the call returned: null, false and 0 are written 0, true
\* is written 1.  The fields from threw on are history.
IdleTask ==
    [op |-> "none", pc |-> "idle", key |-> "none", value |-> 0, setAt |-> 0,
     i |-> 0, found |-> <<>>, result |-> 0, threw |-> FALSE, at |-> 0,
     fetched |-> 0, rejected |-> FALSE, reqs |-> 0, failed |-> FALSE,
     alone |-> TRUE]

Resting(t) == task[t].pc \in {"idle", "done"}

\* Where a call is at its first await, or "done" when it returns before one.
FirstPc(op) ==
    IF IsRedisAvailable
    THEN CASE op = "get" -> "get"
           [] op = "set" -> "set"
           [] op = "del" -> "del"
           [] op = "delMany" -> "delMany"
           [] op = "invalidateByTag" -> "lrange"
           [] op = "getOrSet" -> "get"
           [] op = "getStaleWhileRevalidate" -> "swrGet"
    ELSE IF op \in {"getOrSet", "getStaleWhileRevalidate"} THEN "fetch"
         ELSE "done"

\* The caller calls the cache service and awaits the call.  The data it
\* passes, and the data its fetcher would return, is the number of the call.
CacheCall ==
    /\ Resting(0)
    /\ calls < MaxCalls
    /\ calls' = calls + 1
    /\ \E op \in Ops :
       \E k \in CASE op = "invalidateByTag" -> TagNames
                  [] op = "delMany" -> {"all"}
                  [] OTHER -> Keys :
          /\ op \in {"getOrSet", "getStaleWhileRevalidate"} => Resting(1)
          /\ task' = [task EXCEPT ![0] =
                        [IdleTask EXCEPT !.op = op, !.pc = FirstPc(op),
                                         !.key = k, !.value = calls + 1,
                                         !.at = now, !.setAt = now,
                                         !.alone = Resting(1) /\ dels = {}]]
    /\ UNCHANGED <<cacheRest, now, ticks, kv, tagList, dels,
                   outage>>

\* What a step of a call leaves alone.
taskRest == <<cacheRest, now, ticks, calls>>

\* A redis command of the call was sent and answered, or not.
Commanded(c, ok) ==
    [c EXCEPT !.reqs = @ + Sent, !.failed = @ \/ ~ok]

\* set(key, data, options) started and not awaited: Date.now() is read and
\* redis.set is on its way.
Background(c, data) ==
    IF IsRedisAvailable
    THEN [task EXCEPT ![0] = c,
                      ![1] = [IdleTask EXCEPT !.op = "set", !.pc = "set",
                                              !.key = c.key, !.value = data,
                                              !.at = now, !.setAt = now]]
    ELSE [task EXCEPT ![0] = c]

\* cached.expiresAt < now, with now = Date.now()
IsExpiredNever(e) == FALSE

IsExpired(e) == e.expiresAt < now

\* cache.get: await redis.get, then the envelope's expiresAt is compared
\* with Date.now(); an expired envelope is deleted without await.  In
\* getOrSet a miss goes on to the fetcher.
RedisGet(t) ==
    /\ task[t].pc = "get"
    /\ \E ok \in Answers :
          LET c == Commanded(task[t], ok)
              e == kv[c.key]
              cached == redisConfigured /\ ok /\ Live(e)
              expired == cached /\ IsExpired(e)
              hit == cached /\ ~expired
          IN /\ task' = [task EXCEPT ![t] =
                   IF hit \/ c.op = "get"
                   THEN [c EXCEPT !.pc = "done",
                                  !.result = IF hit THEN e.data ELSE 0]
                   ELSE [c EXCEPT !.pc = "fetch"]]
             /\ dels' = IF expired THEN dels \cup {c.key} ELSE dels
             /\ outage' = outage + IF ok THEN 0 ELSE 1
    /\ UNCHANGED <<taskRest, kv, tagList>>

\* The redis.del of an expired envelope reaches redis.
LazyDel ==
    /\ \E k \in dels :
          /\ dels' = dels \ {k}
          /\ \E ok \in Answers :
                /\ kv' = IF ok THEN [kv EXCEPT ![k].stored = FALSE] ELSE kv
                /\ outage' = outage + IF ok THEN 0 ELSE 1
    /\ UNCHANGED <<taskRest, tagList, task>>

\* cache.set returns true; revalidateInBackground ends with its set.
SetReturns(c) == [c EXCEPT !.pc = "done", !.result = 1]

\* cache.set: await redis.set(key, cachedData, { ex: ttl }), the envelope
\* expiring ttl seconds after the Date.now() that set read.  A failure of
\* the command does not stop set.
RedisSet(t) ==
    /\ task[t].pc = "set"
    /\ \E ok \in Answers :
          LET c == Commanded(task[t], ok)
              opts == Options(c.key)
          IN /\ kv' = IF redisConfigured /\ ok
                      THEN [kv EXCEPT ![c.key] =
                              [stored |-> TRUE, data |-> c.value,
                               expiresAt |-> c.setAt + opts.ttl * 1000,
                               tags |-> opts.tags,
                               dies |-> now + opts.ttl * 1000]]
                      ELSE kv
             /\ task' = [task EXCEPT ![t] =
                           IF Len(opts.tags) > 0
                           THEN [c EXCEPT !.pc = "lpush", !.i = 1]
                           ELSE SetReturns(c)]
             /\ outage' = outage + IF ok THEN 0 ELSE 1
    /\ UNCHANGED <<taskRest, tagList, dels>>

\* cache.set, for each tag: await redis.lpush(tagKey, key)
RedisLpush(t) ==
    /\ task[t].pc = "lpush"
    /\ \E ok \in Answers :
          LET c == Commanded(task[t], ok)
              tag == Options(c.key).tags[c.i]
              l == tagList[tag]
          IN /\ tagList' =
                   IF redisConfigured /\ ok
                   THEN [tagList EXCEPT ![tag] =
                           IF LiveList(l)
                           THEN [l EXCEPT !.members = <<c.key>> \o @]
                           ELSE [NoList EXCEPT !.stored = TRUE,
                                               !.members = <<c.key>>]]
                   ELSE tagList
             /\ task' = [task EXCEPT ![t] = [c EXCEPT !.pc = "expire"]]
             /\ outage' = outage + IF ok THEN 0 ELSE 1
    /\ UNCHANGED <<taskRest, kv, dels>>

\* cache.set, for each tag: await redis.expire(tagKey, ttl * 2)
RedisExpire(t) ==
    /\ task[t].pc = "expire"
    /\ \E ok \in Answers :
          LET c == Commanded(task[t], ok)
              opts == Options(c.key)
              tag == opts.tags[c.i]
              l == tagList[tag]
          IN /\ tagList' =
                   IF redisConfigured /\ ok /\ LiveList(l)
                   THEN [tagList EXCEPT ![tag] =
                           [l EXCEPT !.expires = TRUE,
                                     !.dies = now + opts.ttl * 2 * 1000]]
                   ELSE tagList
             /\ task' = [task EXCEPT ![t] =
                           IF c.i < Len(opts.tags)
                           THEN [c EXCEPT !.pc = "lpush", !.i = @ + 1]
                           ELSE SetReturns(c)]
             /\ outage' = outage + IF ok THEN 0 ELSE 1
    /\ UNCHANGED <<taskRest, kv, dels>>

\* The elements of a list
Range(seq) == {seq[n] : n \in 1..Len(seq)}

\* cache.del: await redis.del(key), and true whatever redis answered.
\* cache.delMany: the count redis.del returns.  cache.invalidateByTag:
\* redis.del(...keysToDelete), then the tag key is deleted.
RedisDel(t) ==
    /\ task[t].pc \in {"del", "delMany", "delKeys"}
    /\ \E ok \in Answers :
          LET c == Commanded(task[t], ok)
              done == redisConfigured /\ ok
              ks == CASE c.pc = "del" -> {c.key}
                      [] c.pc = "delMany" -> Keys
                      [] c.pc = "delKeys" -> Range(c.found)
              deleted == IF done THEN {k \in ks : Live(kv[k])} ELSE {}
          IN /\ kv' = [k \in Keys |->
                         IF done /\ k \in ks
                         THEN [kv[k] EXCEPT !.stored = FALSE] ELSE kv[k]]
             /\ task' = [task EXCEPT ![t] =
                   CASE c.pc = "del" -> [c EXCEPT !.pc = "done", !.result = 1]
                     [] c.pc = "delMany" ->
                          [c EXCEPT !.pc = "done",
                                    !.result = Cardinality(deleted)]
                     [] c.pc = "delKeys" ->
                          [c EXCEPT !.pc = "delTag",
                                    !.result = Cardinality(deleted)]]
             /\ outage' = outage + IF ok THEN 0 ELSE 1
    /\ UNCHANGED <<taskRest, tagList, dels>>

\* cache.invalidateByTag: await redis.lrange(tagKey, 0, -1); an empty list
\* returns 0.
RedisLrange(t) ==
    /\ task[t].pc = "lrange"
    /\ \E ok \in Answers :
          LET c == Commanded(task[t], ok)
              l == tagList[c.key]
              keysToDelete == IF redisConfigured /\ ok /\ LiveList(l)
                              THEN l.members ELSE <<>>
          IN /\ task' = [task EXCEPT ![t] =
                           IF keysToDelete = <<>>
                           THEN [c EXCEPT !.pc = "done", !.result = 0]
                           ELSE [c EXCEPT !.pc = "delKeys",
                                          !.found = keysToDelete]]
             /\ outage' = outage + IF ok THEN 0 ELSE 1
    /\ UNCHANGED <<taskRest, kv, tagList, dels>>

\* cache.invalidateByTag: await redis.del(tagKey); return deletedCount
RedisDelTag(t) ==
    /\ task[t].pc = "delTag"
    /\ \E ok \in Answers :
          LET c == Commanded(task[t], ok)
          IN /\ tagList' = IF redisConfigured /\ ok
                           THEN [tagList EXCEPT ![c.key].stored = FALSE]
                           ELSE tagList
             /\ task' = [task EXCEPT ![t] = [c EXCEPT !.pc = "done"]]
             /\ outage' = outage + IF ok THEN 0 ELSE 1
    /\ UNCHANGED <<taskRest, kv, dels>>

\* await fetcher(): the promise is fulfilled with data or rejected.
RejectedNever(outcome) == FALSE

Rejected(outcome) == outcome = "throw"

\* The fetcher is awaited.  getOrSet and the miss of
\* getStaleWhileRevalidate start set(key, data, options) without await and
\* return data; a rejection leaves getOrSet as it is, and sends
\* getStaleWhileRevalidate to its catch block, which returns fetcher();
\* revalidateInBackground awaits set(key, data, options) and catches.
Fetch(t) ==
    /\ task[t].pc = "fetch"
    /\ \E outcome \in {"data", "throw"} :
          LET c == [task[t] EXCEPT !.fetched = @ + 1,
                                   !.rejected = (outcome = "throw")]
              returns == [c EXCEPT !.pc = "done", !.result = c.value]
              throws == [c EXCEPT !.pc = "done", !.threw = TRUE]
              inCatch == ~IsRedisAvailable \/ task[t].fetched = 1
          IN task' =
               CASE c.op = "getOrSet" ->
                      IF Rejected(outcome) THEN [task EXCEPT ![t] = throws]
                      ELSE Background(returns, c.value)
                 [] c.op = "getStaleWhileRevalidate" ->
                      IF inCatch
                      THEN [task EXCEPT ![t] = IF Rejected(outcome)
                                               THEN throws ELSE returns]
                      ELSE IF Rejected(outcome)
                           THEN [task EXCEPT ![t] = c]
                           ELSE Background(returns, c.value)
                 [] c.op = "revalidate" ->
                      [task EXCEPT ![t] =
                         IF Rejected(outcome) THEN [c EXCEPT !.pc = "done"]
                         ELSE [c EXCEPT !.pc = "set", !.setAt = now]]
    /\ UNCHANGED <<taskRest, kv, tagList, dels, outage>>

\* getStaleWhileRevalidate: await redis.get, then a fresh envelope is
\* returned, a stale one within its grace period is returned while
\* revalidateInBackground is started, and anything else goes to the fetcher.
SwrGet ==
    /\ task[0].pc = "swrGet"
    /\ \E ok \in Answers :
          LET c == Commanded(task[0], ok)
              e == kv[c.key]
              cached == redisConfigured /\ ok /\ Live(e)
              staleGrace == Options(c.key).staleWhileRevalidate * 1000
              isExpired == IsExpired(e)
              isWithinGrace == e.expiresAt + staleGrace > now
              returns == [c EXCEPT !.pc = "done", !.result = e.data]
          IN /\ task' =
                   IF cached /\ ~isExpired
                   THEN [task EXCEPT ![0] = returns]
                   ELSE IF cached /\ isWithinGrace
                   THEN [task EXCEPT
                           ![0] = returns,
                           ![1] = [IdleTask EXCEPT
                                     !.op = "revalidate", !.pc = "fetch",
                                     !.key = c.key, !.value = c.value,
                                     !.at = now]]
                   ELSE [task EXCEPT ![0] = [c EXCEPT !.pc = "fetch"]]
             /\ outage' = outage + IF ok THEN 0 ELSE 1
    /\ UNCHANGED <<taskRest, kv, tagList, dels>>

\* ------------------------------------------------------------------------
\* UpstashRedisProvider
\* ------------------------------------------------------------------------
\* The operations of the provider; exec is pipeline().exec().
Commands ==
    {"get", "set", "del", "exists", "expire", "ttl", "hget", "hset",
     "hgetall", "hdel", "lpush", "rpush", "lrange", "llen", "zadd",
     "zremrangebyscore", "zcard", "zcount", "incr", "incrby", "keys", "scan",
     "exec", "ping"}

\* execute / executePipeline: the result, or one of the errors they throw
\* (no url or token, response not ok, result.error, the abort of the timeout)
Replies == {"result", "notConfigured", "httpError", "redisError", "timeout"}

\* What the catch block of an operation returns.
Neutral(op) ==
    CASE op \in {"get", "set", "hget", "hgetall"} -> "null"
      [] op = "ttl" -> "-2"
      [] op \in {"lrange", "keys"} -> "[]"
      [] op = "scan" -> "['0', []]"
      [] OTHER -> "0"

\* The operations whose catch block returns: ping throws the error again,
\* and exec has no try around executePipeline.
Catches(op) == op \notin {"exec", "ping"}

NoCommand == [op |-> "none", queued |-> 0, reply |-> "result",
              value |-> "none", threw |-> FALSE]

\* A caller awaits an operation of the provider; a pipeline has queued no
\* command or one, and exec of an empty pipeline returns [] at once.
ProviderCall ==
    /\ \E op \in Commands, reply \in Replies :
       \E queued \in IF op = "exec" THEN {0, 1} ELSE {1} :
          /\ (reply = "notConfigured") = ~redisConfigured
          /\ cmd' = [op |-> op, queued |-> queued, reply |-> reply,
                     value |-> IF queued = 0 THEN "[]"
                               ELSE IF reply = "result" THEN "result"
                               ELSE IF Catches(op) THEN Neutral(op)
                               ELSE "none",
                     threw |-> queued > 0 /\ reply # "result"
                                /\ ~Catches(op)]
    /\ UNCHANGED <<mealVars, redisConfigured, now, ticks, kv, tagList, task,
                   dels, outage, calls, zset, rl, admitted, appVars>>

\* ------------------------------------------------------------------------
\* Rate limiter (sliding window over a sorted set)
\* ------------------------------------------------------------------------
\* RATE_LIMIT of the redis configuration: the window in seconds.  The
\* number of requests of the endpoint is MaxRequests here.
RATE_LIMIT == [endpoints |-> [gemini |-> [requests |-> MaxRequests,
                                           window |-> 60]]]

\* The RateLimitConfig that rateLimitGemini passes.
Config == [identifier |-> "gemini",
           limit |-> RATE_LIMIT.endpoints.gemini.requests,
           window |-> RATE_LIMIT.endpoints.gemini.window]

Slots == {1, 2}

NoZset == [stored |-> FALSE, members |-> {}, expires |-> FALSE, dies |-> 0]

\* The sorted set as a command finds it: a key past its expiry is gone.
CurZset == IF zset.stored /\ (zset.expires => now <= zset.dies)
           THEN zset ELSE NoZset

IdleCheck == [pc |-> "idle", at |-> 0, id |-> 0, currentCount |-> 0,
              success |-> FALSE, remaining |-> 0, retryAfter |-> 0,
              failed |-> FALSE, retry |-> FALSE]

\* const windowStart = now - (config.window * 1000)
WindowStartNow(at) == at
WindowStart(at) == at - (Config.window * 1000)

\* Math.ceil(ms / 1000) for the integers that occur
CeilSeconds(ms) == IF ms % 1000 = 0 THEN ms \div 1000 ELSE ms \div 1000 + 1

Max(a, b) == IF a >= b THEN a ELSE b

limiterRest == <<mealVars, redisConfigured, kv, tagList, task, dels, cmd,
                 appVars>>

\* Date.now() moves on; between two checks it may move by a second or by
\* a whole window.  A command in flight ends within
\* PERFORMANCE.commandTimeout.
LimiterTick ==
    /\ ticks < MaxClock
    /\ \E d \in IF \A s \in Slots : rl[s].pc \in {"idle", "done"}
                THEN {1, 1000, Config.window * 1000 - 1,
                      Config.window * 2 * 1000}
                ELSE {1} :
          now' = now + d
    /\ ticks' = ticks + 1
    /\ UNCHANGED <<limiterRest, zset, rl, admitted, outage, calls>>

\* A call that returns success: true.
Admit(s, c, remaining) ==
    /\ rl' = [rl EXCEPT ![s] = [c EXCEPT !.pc = "done", !.success = TRUE,
                                         !.remaining = remaining]]
    /\ admitted' = admitted \cup {[at |-> c.at, id |-> c.id]}

\* The caller's call before this one was rejected, and this one is made
\* in the second that its retryAfter names.
IsRetry(s) ==
    /\ rl[s].pc = "done"
    /\ ~rl[s].success
    /\ rl[s].retryAfter > 0
    /\ now >= rl[s].at + rl[s].retryAfter * 1000
    /\ now < rl[s].at + (rl[s].retryAfter + 1) * 1000

\* checkRateLimit(config) up to its first await.
CheckRateLimit(s) ==
    /\ rl[s].pc \in {"idle", "done"}
    /\ calls < MaxChecks
    /\ calls' = calls + 1
    /\ LET c == [IdleCheck EXCEPT !.at = now, !.id = calls + 1,
                                 !.retry = IsRetry(s)] IN
       IF ~IsRedisAvailable
       THEN Admit(s, c, Config.limit - 1)
       ELSE /\ rl' = [rl EXCEPT ![s] = [c EXCEPT !.pc = "zremrangebyscore"]]
            /\ UNCHANGED admitted
    /\ UNCHANGED <<limiterRest, now, ticks, zset, outage>>

\* await redis.zremrangebyscore(key, 0, windowStart); the provider returns 0
\* when the command fails.  A sorted set left empty is deleted.
Zremrangebyscore(s) ==
    /\ rl[s].pc = "zremrangebyscore"
    /\ \E ok \in Answers :
          /\ outage' = IF ok THEN outage ELSE outage + 1
          /\ rl' = [rl EXCEPT ![s].pc = "zcard",
                              ![s].failed = rl[s].failed \/ ~ok]
          /\ zset' = IF ~ok THEN zset
                     ELSE LET kept == {m \in CurZset.members :
                                         ~(0 <= m.score
                                           /\ m.score <= WindowStart(rl[s].at))}
                          IN IF kept = {} THEN NoZset
                             ELSE [CurZset EXCEPT !.members = kept]
    /\ UNCHANGED <<limiterRest, now, ticks, admitted, calls>>

\* const currentCount = await redis.zcard(key), and the test of the limit.
Zcard(s) ==
    /\ rl[s].pc = "zcard"
    /\ \E ok \in Answers :
          LET currentCount == IF ok THEN Cardinality(CurZset.members) ELSE 0
              c == [rl[s] EXCEPT !.currentCount = currentCount,
                                 !.failed = rl[s].failed \/ ~ok]
          IN /\ outage' = IF ok THEN outage ELSE outage + 1
             /\ rl' = [rl EXCEPT ![s] =
                   IF currentCount >= Config.limit
                   THEN [c EXCEPT !.pc = "done", !.success = FALSE,
                                  !.remaining = 0,
                                  !.retryAfter =
                                      Max(1, CeilSeconds(WindowStart(c.at)
                                          + Config.window * 1000 - c.at))]
                   ELSE [c EXCEPT !.pc = "zadd"]]
    /\ UNCHANGED <<limiterRest, now, ticks, zset, admitted, calls>>

\* await redis.zadd(key, now, member); the member is `${now}:${random}`.
Zadd(s) ==
    /\ rl[s].pc = "zadd"
    /\ \E ok \in Answers :
          /\ outage' = IF ok THEN outage ELSE outage + 1
          /\ rl' = [rl EXCEPT ![s].pc = "expire",
                              ![s].failed = rl[s].failed \/ ~ok]
          /\ zset' = IF ~ok THEN zset
                     ELSE [CurZset EXCEPT
                             !.stored = TRUE,
                             !.members = @ \cup {[score |-> rl[s].at,
                                                  id |-> rl[s].id]}]
    /\ UNCHANGED <<limiterRest, now, ticks, admitted, calls>>

\* await redis.expire(key, config.window * 2), and the success result.
Expire(s) ==
    /\ rl[s].pc = "expire"
    /\ \E ok \in Answers :
          /\ outage' = IF ok THEN outage ELSE outage + 1
          /\ zset' = IF ok /\ CurZset.stored
                     THEN [CurZset EXCEPT
                             !.expires = TRUE,
                             !.dies = now + Config.window * 2 * 1000]
                     ELSE zset
          /\ Admit(s, [rl[s] EXCEPT !.failed = rl[s].failed \/ ~ok],
                   Config.limit - rl[s].currentCount - 1)
    /\ UNCHANGED <<limiterRest, now, ticks, calls>>

\* ------------------------------------------------------------------------
\* ProfileService and withRateLimit
\* ------------------------------------------------------------------------
\* The operations that check the rate limit first; "wrapped" is a function
\* returned by withRateLimit.
ProfileOps == {"getProfile", "createProfile", "updateProfile",
               "completeOnboarding", "wrapped"}

\* A profile row; null is the row that is not present.
NoProfile == [present |-> FALSE, onboarding_completed |-> FALSE, rev |-> 0]

NoCached == [stored |-> FALSE, data |-> NoProfile]

IdleProfile == [op |-> "none", pc |-> "idle", limited |-> FALSE,
                threw |-> FALSE, cacheReqs |-> 0, sourceReqs |-> 0,
                data |-> NoProfile, result |-> NoProfile, ok |-> FALSE]

\* What the rest of the program does not see of the profile service.
profRest == <<mealVars, redisConfigured, now, ticks, kv, tagList, task, dels,
              outage, calls, cmd, zset, rl, admitted, deviceVars, day, keyIn,
              keyOut>>

\* A caller awaits an operation; it starts with the check of the rate limit.
ProfileCall ==
    /\ prof.pc \in {"idle", "done"}
    /\ profOps < MaxProfileOps
    /\ profOps' = profOps + 1
    /\ \E op \in ProfileOps :
          prof' = [IdleProfile EXCEPT !.op = op, !.pc = "rateLimit"]
    /\ UNCHANGED <<profRest, profiles, profCache>>

\* Only getProfile goes on after a rejection: it logs a warning.
ThrowsWhenLimited(op) == op # "getProfile"

\* const rateLimitResult = await rateLimitProfile(userId) / rateLimitWrite /
\* checkRateLimit(config), and the test of rateLimitResult.success.
ProfileRateLimit ==
    /\ prof.pc = "rateLimit"
    /\ \E success \in BOOLEAN :
          prof' = [prof EXCEPT
                     !.limited = ~success,
                     !.threw = ~success /\ ThrowsWhenLimited(prof.op),
                     !.pc = IF ~success /\ ThrowsWhenLimited(prof.op)
                            THEN "done"
                            ELSE CASE prof.op = "getProfile" -> "swr"
                                   [] prof.op = "wrapped" -> "fn"
                                   [] OTHER -> "source"]
    /\ UNCHANGED <<profRest, profiles, profCache, profOps>>

\* cache.getStaleWhileRevalidate up to the fetcher: the entry of the cache
\* is returned, a miss or a failed redis.get goes on to the fetcher.
ProfileSwr ==
    /\ prof.pc = "swr"
    /\ IF ~IsRedisAvailable
       THEN prof' = [prof EXCEPT !.pc = "fetch"]
       ELSE \E ok \in BOOLEAN :
               prof' = IF ok /\ profCache.stored
                       THEN [prof EXCEPT !.pc = "done",
                                         !.cacheReqs = @ + 1,
                                         !.result = profCache.data]
                       ELSE [prof EXCEPT !.pc = "fetch", !.cacheReqs = @ + 1]
    /\ UNCHANGED <<profRest, profiles, profCache, profOps>>

\* The fetcher of getProfile (select ... maybeSingle(), null on any error)
\* and the set(key, data, options) that is started with what it returned.
ProfileFetch ==
    /\ prof.pc = "fetch"
    /\ \E error \in BOOLEAN, stored \in BOOLEAN :
          LET data == IF error THEN NoProfile ELSE profiles IN
          /\ prof' = [prof EXCEPT !.pc = "done", !.sourceReqs = @ + 1,
                                  !.cacheReqs = @ + Sent,
                                  !.result = data]
          /\ profCache' = IF IsRedisAvailable /\ stored
                          THEN [stored |-> TRUE, data |-> data]
                          ELSE profCache
    /\ UNCHANGED <<profRest, profiles, profOps>>

\* The request to the profiles table of createProfile (insert ... single()),
\* updateProfile (update ... single()) and completeOnboarding (update).
ProfileSource ==
    /\ prof.pc = "source"
    /\ \E error \in BOOLEAN :
          LET failed ==
                 \/ error
                 \/ prof.op = "createProfile" /\ profiles.present
                 \/ prof.op = "updateProfile" /\ ~profiles.present
              row == CASE prof.op = "createProfile" ->
                            [present |-> TRUE, onboarding_completed |-> FALSE,
                             rev |-> 1]
                       [] prof.op = "updateProfile" ->
                            [profiles EXCEPT !.rev = @ + 1]
                       [] OTHER ->
                            IF profiles.present
                            THEN [profiles EXCEPT
                                    !.onboarding_completed = TRUE,
                                    !.rev = @ + 1]
                            ELSE profiles
          IN /\ profiles' = IF failed THEN profiles ELSE row
             /\ prof' = [prof EXCEPT
                           !.sourceReqs = @ + 1,
                           !.data = IF failed THEN NoProfile ELSE row,
                           !.pc = IF failed THEN "done"
                                  ELSE IF prof.op = "completeOnboarding"
                                  THEN "invalidate" ELSE "cacheProfile"]
    /\ UNCHANGED <<profRest, profCache, profOps>>

\* await this.cacheProfile(userId, profile); return profile
ProfileCacheProfile ==
    /\ prof.pc = "cacheProfile"
    /\ \E stored \in BOOLEAN :
          profCache' = IF IsRedisAvailable /\ stored
                       THEN [stored |-> TRUE, data |-> prof.data]
                       ELSE profCache
    /\ prof' = [prof EXCEPT !.pc = "done", !.cacheReqs = @ + Sent,
                            !.result = prof.data, !.ok = TRUE]
    /\ UNCHANGED <<profRest, profiles, profOps>>

\* await this.invalidateProfileCache(userId); return true
ProfileInvalidate ==
    /\ prof.pc = "invalidate"
    /\ \E deleted \in BOOLEAN :
          profCache' = IF IsRedisAvailable /\ deleted THEN NoCached
                       ELSE profCache
    /\ prof' = [prof EXCEPT !.pc = "done", !.cacheReqs = @ + Sent,
                            !.ok = TRUE]
    /\ UNCHANGED <<profRest, profiles, profOps>>

\* return fn(...args): the wrapped function reads the profiles table.
ProfileFn ==
    /\ prof.pc = "fn"
    /\ prof' = [prof EXCEPT !.pc = "done", !.sourceReqs = @ + 1,
                            !.result = profiles, !.ok = TRUE]
    /\ UNCHANGED <<profRest, profiles, profCache, profOps>>

\* ------------------------------------------------------------------------
\* Local storage module over AsyncStorage
\* ------------------------------------------------------------------------
CACHE_VERSION == "v1"

\* Keys of the items that are written by set and read by get.
StoreKeys == {"meals", "profile", "settings"}

\* What AsyncStorage holds under a key: nothing, or a text that is empty,
\* is not JSON, or is the JSON of a CachedItem of some version and age.
NoItem == [exists |-> FALSE, text |-> "none", version |-> "none",
           stale |-> FALSE]

CachedItem(version, stale) ==
    [exists |-> TRUE, text |-> "json", version |-> version, stale |-> stale]

Items ==
    {NoItem,
     [exists |-> TRUE, text |-> "empty", version |-> "none", stale |-> FALSE],
     [exists |-> TRUE, text |-> "garbage", version |-> "none",
      stale |-> FALSE],
     CachedItem("v0", FALSE), CachedItem(CACHE_VERSION, FALSE),
     CachedItem(CACHE_VERSION, TRUE)}

IdleGet == [op |-> "none", pc |-> "idle", key |-> "none", found |-> NoItem,
            result |-> "none", removes |-> 0]

deviceRest == <<mealVars, redisConfigured, now, ticks, kv, tagList, task,
                dels, outage, calls, cmd, zset, rl, admitted, profVars, day,
                keyIn, keyOut>>

\* A caller awaits get(key) or set(key, data).
LocalCall ==
    /\ lget.pc \in {"idle", "done"}
    /\ localOps < MaxLocalOps
    /\ localOps' = localOps + 1
    /\ \E op \in {"get", "set"}, k \in StoreKeys :
          lget' = [IdleGet EXCEPT !.op = op, !.key = k,
                                  !.pc = IF op = "get" THEN "getItem"
                                         ELSE "setItem"]
    /\ UNCHANGED <<deviceRest, device>>

\* JSON.parse(raw) throws on a text that is not JSON.
ParseThrows(item) == item.text = "garbage"

\* get: const raw = await AsyncStorage.getItem(key) and what follows up to
\* the next await; the catch block returns null.
LocalGetItem ==
    /\ lget.op = "get" /\ lget.pc = "getItem"
    /\ \E throws \in BOOLEAN :
          LET raw == device[lget.key]
              c == [lget EXCEPT !.found = raw] IN
          lget' =
             IF throws \/ ~raw.exists \/ raw.text = "empty"
                \/ ParseThrows(raw)
             THEN [c EXCEPT !.pc = "done", !.result = "null"]
             ELSE IF raw.version # CACHE_VERSION
             THEN [c EXCEPT !.pc = "removeItem"]
             ELSE [c EXCEPT !.pc = "done", !.result = "data"]
    /\ UNCHANGED <<deviceRest, device, localOps>>

\* get: await AsyncStorage.removeItem(key); return null (version mismatch)
LocalRemoveItem ==
    /\ lget.op = "get" /\ lget.pc = "removeItem"
    /\ \E throws \in BOOLEAN :
          /\ device' = IF throws THEN device
                       ELSE [device EXCEPT ![lget.key] = NoItem]
          /\ lget' = [lget EXCEPT !.pc = "done", !.result = "null",
                                  !.removes = IF throws THEN 0 ELSE 1]
    /\ UNCHANGED <<deviceRest, localOps>>

\* set: await AsyncStorage.setItem(key, JSON.stringify(cached))
LocalSetItem ==
    /\ lget.op = "set" /\ lget.pc = "setItem"
    /\ \E throws \in BOOLEAN :
          /\ device' = IF throws THEN device
                       ELSE [device EXCEPT ![lget.key] =
                               CachedItem(CACHE_VERSION, FALSE)]
          /\ lget' = [lget EXCEPT !.pc = "done",
                                  !.result = IF throws THEN "false"
                                             ELSE "true"]
    /\ UNCHANGED <<deviceRest, localOps>>

\* ------------------------------------------------------------------------
\* Meal ids
\* ------------------------------------------------------------------------
\* What Math.random().toString(36) can be after its first two characters.
Randoms == [1..RandomDigits -> {0, 1}]

Min(a, b) == IF a <= b THEN a ELSE b

\* .substr(2, 9) of that text: at most nine characters of it.
Suffix(r) == SubSeq(r, 1, Min(9, Len(r)))

\* generateMealId(): `meal_${Date.now()}_${suffix}`
GenerateMealId(r) == [at |-> now, suffix |-> Suffix(r)]

idRest == <<mealVars, redisConfigured, kv, tagList, task, dels, outage, calls,
            cmd, zset, rl, admitted, profVars, deviceVars, keyIn, keyOut>>

\* addMealOptimistic on the array the add before it produced:
\* optimisticMeals = [...currentMeals, newMeal] with a generated id.
AddMeal ==
    /\ Len(day) < MaxAdds
    /\ \E r \in Randoms : day' = Append(day, GenerateMealId(r))
    /\ UNCHANGED <<idRest, now, ticks>>

\* Date.now() moves on by a millisecond between two adds, or does not.
Millisecond ==
    /\ ticks < MaxClock
    /\ now' = now + 1
    /\ ticks' = ticks + 1
    /\ UNCHANGED <<idRest, day>>

\* ------------------------------------------------------------------------
\* Key builder
\* ------------------------------------------------------------------------
\* A string is the sequence of its characters.
KEY_PREFIX == [app |-> <<"n", "8", "n">>, cache |-> <<"c">>,
               separator |-> <<":">>]

\* type CacheNamespace
CacheNamespaces ==
    {<<"p", "r", "o", "f", "i", "l", "e">>, <<"m", "e", "a", "l", "s">>,
     <<"n", "u", "t", "r", "i", "t", "i", "o", "n">>,
     <<"g", "e", "m", "i", "n", "i">>, <<"s", "t", "o", "r", "a", "g", "e">>}

\* The strings a caller passes as parts: empty, plain, and with separators.
PartStrings ==
    {<<>>, <<"a">>, <<":">>, <<"a", ":">>, <<":", "a">>, <<"m", "e", "a", "l", "s">>}

PartLists == UNION {[1..n -> PartStrings] : n \in 0..MaxParts}

\* Boolean(part) of parts.filter(Boolean): the empty string is dropped.
BooleanNever(part) == FALSE
Boolean(part) == part # <<>>

\* parts.join(separator)
RECURSIVE Join(_, _)
Join(parts, separator) ==
    IF parts = <<>> THEN <<>>
    ELSE IF Len(parts) = 1 THEN parts[1]
    ELSE parts[1] \o separator \o Join(Tail(parts), separator)

\* buildKey(...parts)
BuildKey(parts) == Join(SelectSeq(parts, Boolean), KEY_PREFIX.separator)

\* keys.cache(namespace, ...parts)
KeysCache(namespace, parts) ==
    BuildKey(<<KEY_PREFIX.app, KEY_PREFIX.cache, namespace>> \o parts)

NoInput == <<[namespace |-> <<>>, parts |-> <<>>],
             [namespace |-> <<>>, parts |-> <<>>]>>

NoKeys == [built |-> FALSE, first |-> <<>>, again |-> <<>>, second |-> <<>>]

\* The two calls are made, the first of them twice.
BuildKeys ==
    /\ ~keyOut.built
    /\ keyOut' = [built |-> TRUE,
                  first |-> KeysCache(keyIn[1].namespace, keyIn[1].parts),
                  again |-> KeysCache(keyIn[1].namespace, keyIn[1].parts),
                  second |-> KeysCache(keyIn[2].namespace, keyIn[2].parts)]
    /\ UNCHANGED <<mealVars, redisConfigured, now, ticks, kv, tagList, task,
                   dels, outage, calls, cmd, zset, rl, admitted, profVars,
                   deviceVars, day, keyIn>>

\* ------------------------------------------------------------------------
\* Specifications
\* ------------------------------------------------------------------------
\* The day as earlier sessions and the backend left it.
ThreeMeals ==
    <<MealItem(1, "breakfast", "Oats"), MealItem(2, "breakfast", "Rice"),
      MealItem(3, "lunch", "Rice")>>

\* redis holds nothing of the cache service and no call has been made.
InitService ==
    /\ now = 0
    /\ ticks = 0
    /\ kv = [k \in Keys |-> NoKey]
    /\ tagList = [tg \in TagNames |-> NoList]
    /\ task = [t \in {0, 1} |-> IdleTask]
    /\ dels = {}
    /\ outage = 0
    /\ calls = 0
    /\ cmd = NoCommand
    /\ zset = NoZset
    /\ rl = [s \in Slots |-> IdleCheck]
    /\ admitted = {}
    /\ prof = IdleProfile
    /\ profiles = NoProfile
    /\ profCache = NoCached
    /\ profOps = 0
    /\ lget = IdleGet
    /\ localOps = 0
    /\ day = <<>>
    /\ keyOut = NoKeys

InitCalls ==
    /\ InitService
    /\ syncQueue = <<>>
    /\ isOnline = TRUE
    /\ connected = TRUE
    /\ modal = "none"
    /\ selected = 0
    /\ mut = [s \in MutSlots |-> IdleCall]
    /\ refresh = IdleRefresh
    /\ bgSets = {}
    /\ sync = IdleSync
    /\ nextId = [meal |-> 5, row |-> 5, item |-> 1]
    /\ ops = 0
    /\ applied = 0

\* The service under a caller that has loaded the day: an empty day, or a
\* day of three meals held by every tier.
Init ==
    /\ redisConfigured \in BOOLEAN
    /\ keyIn = NoInput
    /\ device = [k \in StoreKeys |-> NoItem]
    /\ \/ /\ source = <<>>
          /\ local = Null
          /\ cacheEntry = NoEntry
          /\ meals = <<>>
       \/ /\ source = <<[id |-> 4, meals |-> ThreeMeals, is_locked |-> FALSE]>>
          /\ local = Daily(4, ThreeMeals, FALSE)
          /\ cacheEntry \in {NoEntry} \cup
                (IF redisConfigured THEN {Entry(Daily(4, ThreeMeals, FALSE))}
                                    ELSE {})
          /\ meals = ThreeMeals
    /\ isLocked = FALSE
    /\ isLoading = FALSE
    /\ load = IdleLoad
    /\ InitCalls

\* One caller that awaits each mutation, connectivity events and calls of
\* syncOfflineMutations, in any interleaving.
Next ==
    \/ CallAdd(1)
    \/ CallUpdate(1)
    \/ CallRemove(1)
    \/ CallClear(1)
    \/ MutStep(1)
    \/ NetInfoEvent
    \/ SyncStart
    \/ SyncStep

Spec == Init /\ [][Next]_vars

\* The meals screen from its mount: the first loadMeals is in flight, the
\* row may have been locked by the backend since the local copy was taken.
InitScreen ==
    /\ redisConfigured \in BOOLEAN
    /\ keyIn = NoInput
    /\ device = [k \in StoreKeys |-> NoItem]
    /\ \/ /\ source = <<>>
          /\ local = Null
          /\ cacheEntry = NoEntry
       \/ /\ \E locked \in BOOLEAN :
                source = <<[id |-> 4, meals |-> ThreeMeals, is_locked |-> locked]>>
          /\ local \in {Null, Daily(4, ThreeMeals, FALSE)}
          /\ cacheEntry = NoEntry
    /\ meals = <<>>
    /\ isLocked = FALSE
    /\ isLoading = TRUE
    /\ load = [pc |-> "localRead", online |-> TRUE, after |-> 0]
    /\ InitCalls

NextScreen ==
    \/ OpenModal
    \/ CloseModal
    \/ HandleMealAction
    \/ HandleEditMeal
    \/ HandleSelectFood(1)
    \/ HandleDeleteMeal(1)
    \/ HandleClearAllMeals(1)
    \/ HandleSaveCustomMeal(1)
    \/ MutStep(1)
    \/ OnRefresh
    \/ NetInfoEvent
    \/ LoadLocalRead
    \/ LoadCacheGet
    \/ LoadFetch
    \/ RefreshFetch
    \/ RefreshLocalWrite
    \/ BackgroundCacheSet

ScreenSpec == InitScreen /\ [][NextScreen]_vars

\* The loaded day on a device that goes offline and online: a caller that
\* adds to the day and clears it, awaiting each call, and reloads the day.
NextOfflineDay ==
    \/ CallAdd(1)
    \/ CallClear(1)
    \/ MutStep(1)
    \/ NetInfoEvent
    \/ OnRefresh
    \/ LoadLocalRead
    \/ LoadCacheGet
    \/ LoadFetch
    \/ RefreshFetch
    \/ RefreshLocalWrite
    \/ BackgroundCacheSet

OfflineDaySpec == Init /\ [][NextOfflineDay]_vars

\* The loaded day on a device that stays online: a caller that clears the
\* day and adds to it, awaiting each call, and reloads the day.
NextDay ==
    \/ CallAdd(1)
    \/ CallClear(1)
    \/ MutOnlineStep(1)
    \/ OnRefresh
    \/ LoadLocalRead
    \/ LoadCacheGet
    \/ LoadFetch
    \/ RefreshFetch
    \/ RefreshLocalWrite
    \/ BackgroundCacheSet

DaySpec == Init /\ [][NextDay]_vars

\* The loaded day on a device that stays online, under a screen that does
\* not await a mutation before it issues the next one.
NextPair ==
    \E s \in MutSlots :
       \/ CallAdd(s)
       \/ CallRemove(s)
       \/ CallClear(s)
       \/ MutOnlineStep(s)

PairSpec == Init /\ [][NextPair]_vars

\* The mutations of one caller on a device whose connectivity changes before
\* the NetInfo listener runs.
NextProbe ==
    \/ CallAdd(1)
    \/ CallUpdate(1)
    \/ CallRemove(1)
    \/ CallClear(1)
    \/ MutStep(1)
    \/ ConnectivityChange
    \/ NetInfoListener

ProbeSpec == Init /\ [][NextProbe]_vars

\* getMealsForDate on a device that is online, with the day as an earlier
\* session left it in the Local Store and the remote cache, and as the
\* backend or another device left it at the source since.
InitRefresh ==
    /\ redisConfigured \in BOOLEAN
    /\ device = [k \in StoreKeys |-> NoItem]
    /\ keyIn = NoInput
    /\ local \in {Null, Daily(4, ThreeMeals, FALSE)}
    /\ source \in {<<>>,
                   <<[id |-> 4, meals |-> ThreeMeals, is_locked |-> FALSE]>>,
                   <<[id |-> 4, meals |-> SubSeq(ThreeMeals, 1, 1),
                      is_locked |-> FALSE]>>}
    /\ cacheEntry \in {NoEntry} \cup
          (IF redisConfigured THEN {Entry(Daily(4, ThreeMeals, FALSE))}
                              ELSE {})
    /\ meals = <<>>
    /\ isLocked = FALSE
    /\ isLoading = TRUE
    /\ load = [pc |-> "localRead", online |-> TRUE, after |-> 0]
    /\ InitCalls

\* The screen issues a mutation once loadMeals has returned.
AddLoaded == load.pc = "idle" /\ ~isLoading /\ CallAdd(1)
ClearLoaded == load.pc = "idle" /\ ~isLoading /\ CallClear(1)

NextRefresh ==
    \/ LoadLocalRead
    \/ LoadCacheGet
    \/ LoadFetch
    \/ RefreshFetch
    \/ RefreshLocalWrite
    \/ BackgroundCacheSet
    \/ AddLoaded
    \/ ClearLoaded
    \/ MutOnlineStep(1)

RefreshSpec == InitRefresh /\ [][NextRefresh]_vars

\* The cache service under one caller that awaits each call, with the
\* work its calls leave in the background, while time passes.
InitCache ==
    /\ redisConfigured \in BOOLEAN
    /\ keyIn = NoInput
    /\ device = [k \in StoreKeys |-> NoItem]
    /\ source = <<>>
    /\ local = Null
    /\ cacheEntry = NoEntry
    /\ meals = <<>>
    /\ isLocked = FALSE
    /\ isLoading = FALSE
    /\ load = IdleLoad
    /\ InitCalls

NextCache ==
    \/ CacheCall
    \/ Tick
    \/ LazyDel
    \/ SwrGet
    \/ \E t \in {0, 1} :
          \/ RedisGet(t)
          \/ Fetch(t)
          \/ RedisSet(t)
          \/ RedisLpush(t)
          \/ RedisExpire(t)
          \/ RedisDel(t)
          \/ RedisLrange(t)
          \/ RedisDelTag(t)

CacheSpec == InitCache /\ [][NextCache]_vars

\* The provider under callers of its operations.
NextProvider == ProviderCall

ProviderSpec == InitCache /\ [][NextProvider]_vars

\* One caller that awaits each checkRateLimit before the next.
NextLimiter ==
    \/ LimiterTick
    \/ \E s \in {1} :
          \/ CheckRateLimit(s)
          \/ Zremrangebyscore(s)
          \/ Zcard(s)
          \/ Zadd(s)
          \/ Expire(s)

LimiterSpec == InitCache /\ [][NextLimiter]_vars

\* Two callers whose checkRateLimit calls on the identifier overlap.
NextLimiterPair ==
    \/ LimiterTick
    \/ \E s \in Slots :
          \/ CheckRateLimit(s)
          \/ Zremrangebyscore(s)
          \/ Zcard(s)
          \/ Zadd(s)
          \/ Expire(s)

LimiterPairSpec == InitCache /\ [][NextLimiterPair]_vars

\* The profile service under one caller that awaits each operation.
NextProfile ==
    \/ ProfileCall
    \/ ProfileRateLimit
    \/ ProfileSwr
    \/ ProfileFetch
    \/ ProfileSource
    \/ ProfileCacheProfile
    \/ ProfileInvalidate
    \/ ProfileFn

ProfileSpec == InitCache /\ [][NextProfile]_vars

\* The local storage module over a device storage that holds anything an
\* earlier run, an earlier version of the app or a broken write left.
InitDevice ==
    /\ redisConfigured = FALSE
    /\ keyIn = NoInput
    /\ device \in [StoreKeys -> Items]
    /\ source = <<>>
    /\ local = Null
    /\ cacheEntry = NoEntry
    /\ meals = <<>>
    /\ isLocked = FALSE
    /\ isLoading = FALSE
    /\ load = IdleLoad
    /\ InitCalls

NextDevice ==
    \/ LocalCall
    \/ LocalGetItem
    \/ LocalRemoveItem
    \/ LocalSetItem

DeviceSpec == InitDevice /\ [][NextDevice]_vars

\* Successive adds to one day, in a tight loop or milliseconds apart.
NextIds == AddMeal \/ Millisecond

IdSpec == InitCache /\ [][NextIds]_vars

\* Two calls of keys.cache, with any namespaces and parts.
InitKeys ==
    /\ redisConfigured = FALSE
    /\ device = [k \in StoreKeys |-> NoItem]
    /\ keyIn \in [1..2 -> [namespace : CacheNamespaces, parts : PartLists]]
    /\ source = <<>>
    /\ local = Null
    /\ cacheEntry = NoEntry
    /\ meals = <<>>
    /\ isLocked = FALSE
    /\ isLoading = FALSE
    /\ load = IdleLoad
    /\ InitCalls

NextKeys == BuildKeys

KeySpec == InitKeys /\ [][NextKeys]_vars

\* ------------------------------------------------------------------------
\* Properties
\* ------------------------------------------------------------------------
\* opt is what an entry point of this kind makes of the list cur: cur plus
\* one new item at its end, cur with at most one item edited in place, cur without
\* one item, or the empty list.
PostMutation(kind, cur, opt) ==
    CASE kind = "add" ->
            /\ Len(opt) = Len(cur) + 1
            /\ SubSeq(opt, 1, Len(cur)) = cur
            /\ \A i \in 1..Len(cur) : cur[i].id # opt[Len(opt)].id
      [] kind = "update" ->
            /\ Len(opt) = Len(cur)
            /\ \A i \in 1..Len(cur) :
                   opt[i].id = cur[i].id /\ opt[i].meal_type = cur[i].meal_type
            /\ Cardinality({i \in 1..Len(cur) : opt[i] # cur[i]}) <= 1
      [] kind = "remove" ->
            /\ Len(opt) = Len(cur) - 1
            /\ \E k \in 1..Len(cur) :
                   opt = SubSeq(cur, 1, k - 1) \o SubSeq(cur, k + 1, Len(cur))
      [] kind = "clear" -> opt = <<>>

\* C1: an online mutation whose source write failed has fired exactly two
\* callbacks, onOptimisticUpdate with the post-mutation list and then
\* onError with the list it was called with, after exactly one write request.
C1_OptimisticRollback ==
    \A s \in MutSlots :
        LET c == mut[s]
        IN (c.pc = "done" /\ c.failed) =>
              /\ c.online
              /\ Len(c.cbs) = 2
              /\ c.cbs[1].cb = "onOptimisticUpdate"
              /\ PostMutation(c.kind, c.cur, c.cbs[1].list)
              /\ c.cbs[2] = [cb |-> "onError", list |-> c.cur]
              /\ c.writes = 1

\* A failed online add to a day that had meals has returned.
C1_Witness ==
    /\ mut[1].pc = "done" /\ mut[1].failed
    /\ mut[1].kind = "add" /\ mut[1].cur = ThreeMeals

\* C2: a mutation that found the flag offline returns having made no
\* request to the source store and having appended to the queue exactly one
\* item with an id not handed out before, with the action of its entry point and,
\* except for clear, the whole post-mutation list; the local store then
\* holds the optimistic list (no entry, for clear).
C2_OfflineQueuing ==
    [][\A s \in MutSlots :
          LET c == mut[s]
              new == SelectSeq(syncQueue', LAMBDA it : it.id >= nextId.item)
          IN (c.pc # "done" /\ mut'[s].pc = "done" /\ ~c.online) =>
                /\ mut'[s].srcReqs = 0 /\ source' = source
                /\ Len(new) = 1
                /\ syncQueue'[Len(syncQueue')] = new[1]
                /\ new[1].action = (CASE c.kind = "add" -> "add"
                                       [] c.kind = "update" -> "update"
                                       [] c.kind = "remove" -> "delete"
                                       [] c.kind = "clear" -> "clear")
                /\ IF c.kind = "clear"
                   THEN ~new[1].hasMeals /\ ~local'.present
                   ELSE /\ new[1].hasMeals /\ new[1].meals = c.opt
                        /\ PostMutation(c.kind, c.cur, c.opt)
                        /\ local'.present /\ local'.meals = c.opt
    ]_vars

\* The ids of the items in the stored queue.
QueuedIds == {syncQueue[i].id : i \in 1..Len(syncQueue)}

\* C3: when syncOfflineMutations returns, every item whose remote operation
\* the source store failed is still in the queue and is not counted in the
\* number returned.
C3_FailedItemsStay ==
    sync.pc = "done" =>
        /\ sync.failedIds \subseteq QueuedIds
        /\ sync.synced <= sync.total - Cardinality(sync.failedIds)

\* C4: no item is applied to the source after an item enqueued later (item
\* ids grow in enqueue order).
C4_AppliedInEnqueueOrder == [][applied' >= applied]_vars

\* C5: the connectivity change from offline to online with items queued
\* starts a syncOfflineMutations run.
C5_ReconnectStartsSync ==
    [][(~isOnline /\ isOnline' /\ syncQueue # <<>>) => sync'.pc = "getQueue"]_vars

\* The replay of one queue item by syncOfflineMutations against a store
\* that accepts every request.
Replay(src, item, rowId) ==
    IF item.action = "clear" THEN DeleteRows(src)
    ELSE IF item.hasMeals THEN SaveMealsForDate(src, rowId, item.meals)
    ELSE src

MealsOf(src) == [i \in 1..Len(src) |-> src[i].meals]

\* C6: from every state the store gets into, replaying a queued item twice
\* leaves the rows of the day as replaying it once does, at most one row.
C6_IdempotentReplay ==
    \A i \in 1..Len(syncQueue) :
        LET once == Replay(source, syncQueue[i], nextId.row)
            twice == Replay(once, syncQueue[i], nextId.row + 1)
        IN MealsOf(twice) = MealsOf(once) /\ Len(twice) <= 1

\* The get that returns in this step was called after mutation call c had
\* returned from a successful online run, with no mutation since.
ReturnsAfter(c) ==
    /\ load.pc # "idle" /\ load'.pc = "idle"
    /\ load.after = ops /\ ops' = ops
    /\ c.pc = "done" /\ c.online /\ ~c.failed

\* C7: a get called after a successful online clear of a day of three meals
\* gives the screen no meals.
C7_NoMealsAfterClear ==
    [][(ReturnsAfter(mut[1]) /\ mut[1].kind = "clear" /\ Len(mut[1].cur) = 3)
          => meals' = <<>>]_vars

\* C8: a get called after a successful online add to an empty list, for a
\* day without a row in any tier, gives exactly the item added, and the
\* total nutrition of that list is the item's own.
C8_AddThenGet ==
    [][(ReturnsAfter(mut[1]) /\ mut[1].kind = "add" /\ mut[1].empty
                                /\ mut[1].cur = <<>>)
          => /\ Len(meals') = 1
             /\ meals' = mut[1].opt
             /\ \E m \in Menu : /\ meals'[1].meal_type = m.type
                                /\ meals'[1].name = m.food
                                /\ CalculateTotalNutrition(meals') = Nutrients(m.food)
    ]_vars

\* C9: the source store holds at most one row of the day.
C9_OneRowPerDay == Len(source) <= 1

\* C10: no entry point is called while the screen holds a locked record.
C10_NoMutationWhenLocked ==
    \A s \in MutSlots : mut[s].pc # "idle" => ~mut[s].locked

\* C11: a getMealsForDate call that read the flag offline returns at its
\* read of the Local Store with exactly the value held there (null gives the
\* screen no meals, unlocked), it never reaches the cache read or the fetch,
\* and its return starts no background refresh and no cache write and leaves
\* the remote cache and the source of truth as they were.
C11_OfflineLocalOnly ==
    [][(load.pc # "idle" /\ ~load.online) =>
          /\ load.pc = "localRead"
          /\ load'.pc \in {"localRead", "idle"}
          /\ load'.pc = "idle" =>
                /\ meals' = local.meals
                /\ isLocked' = local.is_locked
                /\ local' = local
                /\ refresh' = refresh
                /\ bgSets' = bgSets
                /\ cacheEntry' = cacheEntry
                /\ source' = source]_vars

\* an offline load has returned a stale local value: the source of truth
\* holds other meals than the ones the screen was given
C11_Witness ==
    /\ load.pc = "idle" /\ ~load.online
    /\ local.present /\ meals = local.meals /\ meals # <<>>
    /\ refresh.pc = "idle"
    /\ source # <<>> /\ source[1].meals # meals

\* A call of cache.get by the caller returns at this step.
GetReturns == task[0].op = "get" /\ task[0].pc = "get" /\ task'[0].pc = "done"

C13_InvalidateByTagComplete ==
    [][(/\ task[0].op = "invalidateByTag"
        /\ task[0].pc # "done" /\ task'[0].pc = "done"
        /\ redisConfigured /\ outage' = 0 /\ task[0].alone) =>
          \A k \in Keys :
             ~(/\ kv'[k].stored /\ now <= kv'[k].dies
               /\ task[0].key \in Range(kv'[k].tags))]_vars

\* C14: once the cache.set calls made so far have returned, with every
\* command answered, each tag list redis holds lives at least as long as
\* each entry in it that is still stored and was set with that tag.
C14_TagListOutlivesEntries ==
    (Resting(0) /\ Resting(1) /\ outage = 0) =>
       \A tg \in TagNames : \A k \in Range(tagList[tg].members) :
          (LiveList(tagList[tg]) /\ Live(kv[k]) /\ tg \in Range(kv[k].tags))
             => (~tagList[tg].expires \/ tagList[tg].dies >= kv[k].dies)

\* C15: a getStaleWhileRevalidate call that the caller made one millisecond
\* after the expiresAt of the entry a cache.set stored (nothing deleted it,
\* the backend is configured, the call's commands are answered, nothing else
\* is in flight) returns the value of that entry without having awaited the
\* fetcher, and leaves revalidateInBackground started.
C15_StaleWhileRevalidate ==
    [][LET c == task[0]
           e == kv[c.key]
       IN (/\ c.op = "getStaleWhileRevalidate"
           /\ c.pc # "done" /\ task'[0].pc = "done"
           /\ redisConfigured /\ ~task'[0].failed /\ c.alone
           /\ e.stored /\ c.at = e.expiresAt + 1) =>
             /\ task'[0].result = e.data
             /\ task'[0].fetched = 0
             /\ task'[1].op = "revalidate" /\ task'[1].pc = "fetch"]_vars

\* C16: when the fetcher of a getOrSet call is rejected the call throws,
\* starts no set and leaves redis as it was; and a getOrSet call returns
\* without calling its fetcher only with the data of an entry redis holds.
C16_GetOrSetFetcherThrows ==
    [][LET c == task[0]
       IN (c.op = "getOrSet" /\ c.pc # "done" /\ task'[0].pc = "done") =>
             /\ task'[0].rejected =>
                   /\ task'[0].threw /\ task'[0].result = 0
                   /\ task'[1] = task[1]
                   /\ kv' = kv /\ tagList' = tagList
             /\ task'[0].fetched = 0 =>
                   /\ Live(kv[c.key]) /\ task'[0].result = kv[c.key].data]_vars

\* a getOrSet call on a configured backend missed, its fetcher was rejected
\* and the call has thrown
C16_Witness ==
    /\ redisConfigured
    /\ task[0].op = "getOrSet" /\ task[0].pc = "done"
    /\ task[0].reqs = 1 /\ task[0].fetched = 1
    /\ task[0].rejected /\ task[0].threw

\* C18: with the backend not configured no call of the cache service sends
\* a command, starts background work or changes what redis holds; get, set,
\* del, delMany and invalidateByTag return null, false or 0 at once; and
\* every getOrSet and getStaleWhileRevalidate call awaits its fetcher once
\* and returns the fetcher's data, or throws the fetcher's rejection.
C18_NotConfiguredDegrades ==
    ~redisConfigured =>
       /\ \A t \in {0, 1} : task[t].reqs = 0
       /\ task[1] = IdleTask /\ dels = {}
       /\ kv = [k \in Keys |-> NoKey]
       /\ tagList = [tg \in TagNames |-> NoList]
       /\ task[0].pc \in {"idle", "fetch", "done"}
       /\ task[0].pc = "fetch" =>
             task[0].op \in {"getOrSet", "getStaleWhileRevalidate"}
       /\ task[0].pc = "done" =>
             IF task[0].op \in {"getOrSet", "getStaleWhileRevalidate"}
             THEN /\ task[0].fetched = 1
                  /\ task[0].threw = task[0].rejected
                  /\ task[0].result = IF task[0].rejected THEN 0
                                      ELSE task[0].value
             ELSE /\ task[0].fetched = 0 /\ ~task[0].threw
                  /\ task[0].result = 0

\* without a configured backend the second call, a getStaleWhileRevalidate,
\* has returned the data of its fetcher
C18_Witness ==
    /\ ~redisConfigured
    /\ calls = 2
    /\ task[0].op = "getStaleWhileRevalidate" /\ task[0].pc = "done"
    /\ task[0].result = 2

\* C17: an operation of the provider that met an error (no configuration, a
\* response that is not ok, an error in the result, a timeout) has not
\* thrown: it has returned the neutral value of its catch block.
C17_ProviderNeverThrows ==
    (cmd.op # "none" /\ cmd.queued > 0 /\ cmd.reply # "result") =>
       ~cmd.threw /\ cmd.value = Neutral(cmd.op)

\* The requests admitted so far with a timestamp in the window of a check
\* made at `at`: later than at - window seconds.
InWindow(at) == {a \in admitted : a.at > at - Config.window * 1000}

C20_FailsOpen ==
    (rl[1].pc = "done" /\ (~redisConfigured \/ rl[1].failed)) =>
       rl[1].success

\* C21: an operation whose rate-limit check returned success = false has
\* surfaced an error to its caller and has made no request to the cache
\* or to the source of truth.
C21_RejectionSurfaced ==
    (prof.pc = "done" /\ prof.limited) =>
       /\ prof.threw
       /\ prof.cacheReqs = 0
       /\ prof.sourceReqs = 0

\* C22: a get(key) that found a text that is not valid JSON has returned
\* null, and the entry is no longer in device storage.
C22_CorruptEntryDeleted ==
    (lget.op = "get" /\ lget.pc = "done" /\ lget.found.text = "garbage") =>
       /\ lget.result = "null"
       /\ ~device[lget.key].exists

\* C23: the ids of a day's meals list built by successive adds are
\* pairwise distinct, adds within one millisecond included.
C23_MealIdsDistinct ==
    \A i, j \in 1..Len(day) : i # j => day[i] # day[j]

\* C24: keys.cache returns the same key for the same namespace and parts,
\* and keys built for two different namespaces are not equal, whatever the
\* parts are (empty strings and parts with the separator included).
C24_KeysCollisionFree ==
    keyOut.built =>
       /\ keyOut.first = keyOut.again
       /\ keyIn[1] = keyIn[2] => keyOut.first = keyOut.second
       /\ keyIn[1].namespace # keyIn[2].namespace =>
             keyOut.first # keyOut.second

\* Two namespaces, one with an empty part and a part that holds the
\* separator, the other with the name of the first namespace as a part.
C24_Witness ==
    /\ keyOut.built
    /\ keyIn[1].namespace = <<"m", "e", "a", "l", "s">>
    /\ keyIn[1].parts = <<<<>>, <<"a", ":">>>>
    /\ keyIn[2].namespace = <<"g", "e", "m", "i", "n", "i">>
    /\ keyIn[2].parts = <<<<"m", "e", "a", "l", "s">>, <<"a">>>>
    /\ keyOut.first = <<"n", "8", "n", ":", "c", ":", "m", "e", "a", "l", "s",
                        ":", "a", ":">>

\* The Local Store holds the result of the call in slot s.
LocalHolds(s) ==
    IF mut[s].kind = "clear" THEN ~local.present
    ELSE local.present /\ local.meals = mut[s].opt

\* C25: in every optimistic mutation onOptimisticUpdate is invoked with the
\* optimistic array before any storage or network I/O; the Local Store
\* write (removal, for clear) has completed at the online check and before
\* any request to the source of truth; and the remote cache is read,
\* updated or deleted only after the source write has succeeded.
C25_StepOrder ==
    [][/\ (Free(1) /\ ~Free(1)') =>
             /\ mut'[1].cbs = <<[cb |-> "onOptimisticUpdate",
                                 list |-> mut'[1].opt]>>
             /\ meals' = mut'[1].opt
             /\ mut'[1].srcReqs = 0
             /\ UNCHANGED <<local, syncQueue, source, cacheEntry>>
       /\ (~Free(1) /\ mut'[1] # mut[1]) =>
             /\ mut[1].cbs[1] = [cb |-> "onOptimisticUpdate",
                                 list |-> mut[1].opt]
             /\ mut[1].pc \in {"localRead", "localWrite", "localRemove"} =>
                   /\ mut[1].srcReqs = 0 /\ mut'[1].srcReqs = 0
                   /\ UNCHANGED <<syncQueue, source, cacheEntry>>
                   /\ mut'[1].pc \in {"queueRead", "select", "delete"} =>
                         /\ LocalHolds(1)'
                         /\ mut'[1].online = isOnline
             /\ mut'[1].srcReqs > mut[1].srcReqs =>
                   /\ mut[1].pc \in {"select", "write", "delete"}
                   /\ LocalHolds(1)
             /\ mut[1].pc \in {"cacheGet", "cacheSet", "cacheDel"} =>
                   /\ mut[1].writes = 1 /\ ~mut[1].failed
                   /\ mut[1].online
             /\ cacheEntry' # cacheEntry =>
                   mut[1].pc \in {"cacheSet", "cacheDel"}]_vars

\* An online add that has written the source and then the remote cache.
C25_Witness ==
    /\ mut[1].pc = "done" /\ mut[1].kind = "add" /\ mut[1].online
    /\ mut[1].writes = 1 /\ ~mut[1].failed
    /\ Len(mut[1].cbs) = 1
    /\ cacheEntry.stored /\ cacheEntry.data.meals = mut[1].opt
    /\ LocalHolds(1)
    /\ Len(source) = 1 /\ source[1].meals = mut[1].opt

\* The source write of the call in slot s has succeeded.
Wrote(s) == mut[s].writes = 1 /\ ~mut[s].failed

\* C26: when a second online mutation was issued while the first was in
\* flight, then once both source writes have succeeded the row of the day
\* holds the array of the second mutation.
C26_LastIssuedWins ==
    (Wrote(1) /\ Wrote(2) /\ Len(source) = 1) =>
       source[1].meals = mut[2].opt

\* C28: when the catch block of a mutation runs after a mutation issued
\* later has succeeded at the source, the list handed to onError, which the
\* screen then shows, is the meals array of the row of the day.
C28_RollbackKeepsLater ==
    [][(~mut[1].failed /\ mut'[1].failed /\ Wrote(2) /\ Len(source) = 1) =>
          /\ mut'[1].cbs[Len(mut'[1].cbs)].list = source[1].meals
          /\ meals' = source[1].meals]_vars

\* The Local Store shows the list: it holds it, or holds nothing when the
\* list is empty.
LocalShows(list) ==
    IF local.present THEN local.meals = list ELSE list = <<>>

\* C29: after an online mutation has failed at the source and onError has
\* been invoked, the Local Store holds the pre-mutation array again.
C29_LocalRolledBack ==
    (mut[1].pc = "done" /\ mut[1].failed) => LocalShows(mut[1].cur)

\* C27: a background refresh that getMealsForDate started before a
\* mutation has not overwritten the Local Store write of the mutation:
\* once both have finished the Local Store holds the mutation's result.
C27_RefreshKeepsMutation ==
    (ops = 1 /\ mut[1].pc = "done" /\ load.pc = "idle"
       /\ refresh.pc = "idle") => LocalHolds(1)

\* A tier reflects the source: no record without a row, else the row's
\* meals and lock.
Reflects(d, src) ==
    IF src = <<>> THEN ~d.present
    ELSE d.present /\ d.meals = src[1].meals
                   /\ d.is_locked = src[1].is_locked

\* C30: when the background refresh of a getMealsForDate that answered from
\* the Local Store completes without error and no mutation was issued, the
\* Local Store reflects the source, and the remote cache reflects it or is
\* being set to it; without a row at the source neither tier holds a record.
C30_RefreshReflectsSource ==
    [][(ops = 0 /\ refresh.pc # "idle" /\ refresh'.pc = "idle"
        /\ (refresh.pc = "fetch" => source = <<>>)) =>
          /\ Reflects(local', source)
          /\ \/ ~redisConfigured
             \/ Reflects(cacheEntry'.data, source)
             \/ \E d \in bgSets' : Reflects(d, source)]_vars


\* C31: an item of the sync queue leaves the queue only in the write of
\* removeFromSyncQueue for its own id, and an id enters the queue only as
\* the new item of an addToSyncQueue: no step drops another item and no
\* step brings back an item that was removed.
C31_QueueItemsKept ==
    [][/\ \A id \in QueuedIds :
             \/ id \in {syncQueue'[i].id : i \in 1..Len(syncQueue')}
             \/ sync.pc = "rmWrite" /\ SyncItem.id = id
       /\ \A i \in 1..Len(syncQueue') :
             \/ syncQueue'[i].id \in QueuedIds
             \/ \E s \in MutSlots : /\ mut[s].pc = "queueWrite"
                                    /\ syncQueue'[i].id = nextId.item]_vars


\* C32: when syncOfflineMutations has replayed a queue item with success
\* (its source request went through and the source holds one row at most),
\* the remote cache entry of the day is absent or holds the source row.
C32_CacheFreshAfterSync ==
    [][(/\ sync.pc \in {"delete", "write"}
        /\ sync'.pc = "rmRead"
        /\ SyncItem.id \notin sync'.failedIds
        /\ Len(source') <= 1)
       => (~cacheEntry'.stored \/ Reflects(cacheEntry'.data, source'))]_vars

\* C33: the branch a mutation takes after its local store call follows the
\* device's connectivity at that moment: a mutation issued while the device
\* is offline goes to the sync queue, whether or not the listener has
\* updated the cached flag.
C33_OfflineMutationQueued ==
    [][\A s \in MutSlots :
          (/\ mut[s].pc \in {"localWrite", "localRemove"}
           /\ mut'[s].pc # mut[s].pc
           /\ ~connected)
          => mut'[s].pc = "queueRead"]_vars

\* C34: onError is invoked only by a step that is a failed source request
\* of the mutation: never by the step in which the source write goes
\* through, and never by a step of the remote cache update that follows,
\* whether the cache command of that step succeeds or fails.
C34_OnErrorOnlyFromSource ==
    [][\A s \in MutSlots :
          (/\ Len(mut'[s].cbs) > Len(mut[s].cbs)
           /\ mut'[s].cbs[Len(mut'[s].cbs)].cb = "onError")
          => (/\ mut[s].pc \in {"write", "delete"}
              /\ source' = source
              /\ cacheEntry' = cacheEntry)]_vars

\* An online mutation has returned without onError: its write is in the
\* source row while the remote cache entry, whose update failed, still
\* holds the meals from before.
C34_Witness ==
    \E s \in MutSlots :
       /\ mut[s].pc = "done"
       /\ mut[s].online
       /\ ~mut[s].failed
       /\ mut[s].cbs # <<>>
       /\ \A i \in 1..Len(mut[s].cbs) : mut[s].cbs[i].cb # "onError"
       /\ Len(source) = 1
       /\ source[1].meals = mut[s].opt
       /\ cacheEntry.stored
       /\ cacheEntry.data.meals # mut[s].opt

\* C35: a getProfile whose read of the profiles table fails while the table
\* holds the user's profile leaves the cache entry of the profile as it
\* was: the null the fetcher returns for the failed read is not stored.
C35_FailedReadNotCached ==
    [][(/\ prof.op = "getProfile"
        /\ prof.pc = "fetch"
        /\ prof'.pc = "done"
        /\ profiles.present
        /\ ~prof'.result.present)
       => profCache' = profCache]_vars

\* C36: a call of getStaleWhileRevalidate invokes its fetcher once at most.
C36_FetcherOnceAtMost ==
    task[0].op = "getStaleWhileRevalidate" => task[0].fetched <= 1

\* C37: with a reachable backend, whatever the interleaving of the checks,
\* the admitted requests whose timestamps lie within a span of `window`
\* seconds (taken from the timestamp of any admitted request) are `limit`
\* at most.
C37_LimitUnderConcurrency ==
    (redisConfigured /\ outage = 0) =>
       \A a \in admitted :
          Cardinality({b \in admitted :
                         /\ a.at <= b.at
                         /\ b.at < a.at + Config.window * 1000})
             <= Config.limit

\* C38: with a reachable backend, the check a caller makes retryAfter
\* seconds after its check was rejected, no other check having been made
\* in between, returns success = true.
C38_RetryAdmitted ==
    [][(/\ rl[1].pc \notin {"idle", "done"}
        /\ rl'[1].pc = "done"
        /\ rl[1].retry
        /\ redisConfigured /\ outage' = 0)
       => rl'[1].success]_vars

====
